---------------------------- MODULE Spec2Model ----------------------------
(***************************************************************************)
(* findr: a find(1)-like selector.  main (src/src/main.rs) separates the   *)
(* leading path arguments from the expression, hands the expression to the *)
(* grammar, converts the parse tree to an AST (src/src/parser.rs) and      *)
(* evaluates the AST on every entry the directory walker yields            *)
(* (src/src/interpreter.rs).                                               *)
(*                                                                         *)
(* Words are strings; Chars gives the characters of every word of the      *)
(* vocabulary, so that the character-level operations of the program       *)
(* (str::find, split_at, split, trim, parse::<u32>) are computed on        *)
(* characters.                                                             *)
(***************************************************************************)
EXTENDS Integers, Sequences, FiniteSets, TLC

VARIABLES
    args,      \* env::args().skip(1): the command line words
    pc,        \* position of main: "start", "parse", "compile", "walk",
               \* "done", "exit" (usage printed), "panicked"
    dirs,      \* main's dirs: the walk roots
    expr,      \* main's expr: the expression text, as its sequence of words
    parsed,    \* the grammar's parse tree (Pairs<Rule>)
    ast,       \* the AST of Ok(ast)
    compiles,  \* number of calls of parse_to_ast so far
    di,        \* index in dirs of the root being walked
    ei,        \* number of walker items of that root consumed so far
    visited,   \* the evaluations that returned, in order: entry and result
    stdout,    \* the paths printed, in order
    stderr,    \* the diagnostics printed, in order
    lookups,   \* the trace of every evaluation started so far, in order
    overflow_checks
               \* the build profile: TRUE iff integer overflow panics (the
               \* debug profile), FALSE iff it wraps (the release profile)

vars == <<args, pc, dirs, expr, parsed, ast, compiles, di, ei, visited,
          stdout, stderr, lookups, overflow_checks>>

(***************************************************************************)
(* Bounds of the model.                                                    *)
(***************************************************************************)
MaxWords == 2      \* command lines over the whole vocabulary: length
MaxOperands == 3   \* operator chains: number of operands
MaxRoots == 2      \* leading path arguments before a test
MaxNodes == 4      \* parenthesised expressions: number of AST nodes

(***************************************************************************)
(* Vocabulary.                                                             *)
(***************************************************************************)
Chars ==
    "." :> <<".">> @@
    "d1" :> <<"d", "1">> @@
    "d2" :> <<"d", "2">> @@
    "(" :> <<"(">> @@
    ")" :> <<")">> @@
    "!" :> <<"!">> @@
    "-not" :> <<"-", "n", "o", "t">> @@
    "-and" :> <<"-", "a", "n", "d">> @@
    "-or" :> <<"-", "o", "r">> @@
    "-true" :> <<"-", "t", "r", "u", "e">> @@
    "-false" :> <<"-", "f", "a", "l", "s", "e">> @@
    "-empty" :> <<"-", "e", "m", "p", "t", "y">> @@
    "-uid" :> <<"-", "u", "i", "d">> @@
    "-gid" :> <<"-", "g", "i", "d">> @@
    "-newer" :> <<"-", "n", "e", "w", "e", "r">> @@
    "-user" :> <<"-", "u", "s", "e", "r">> @@
    "-name" :> <<"-", "n", "a", "m", "e">> @@
    "-iname" :> <<"-", "i", "n", "a", "m", "e">> @@
    "-path" :> <<"-", "p", "a", "t", "h">> @@
    "-regex" :> <<"-", "r", "e", "g", "e", "x">> @@
    "-iregex" :> <<"-", "i", "r", "e", "g", "e", "x">> @@
    "-anewer" :> <<"-", "a", "n", "e", "w", "e", "r">> @@
    "-cnewer" :> <<"-", "c", "n", "e", "w", "e", "r">> @@
    "-mnewer" :> <<"-", "m", "n", "e", "w", "e", "r">> @@
    "-group" :> <<"-", "g", "r", "o", "u", "p">> @@
    "-h" :> <<"-", "h">> @@
    "--help" :> <<"-", "-", "h", "e", "l", "p">> @@
    "-bogus" :> <<"-", "b", "o", "g", "u", "s">> @@
    "0" :> <<"0">> @@
    "+7" :> <<"+", "7">> @@
    "abc" :> <<"a", "b", "c">> @@
    "4294967295" :> <<"4", "2", "9", "4", "9", "6", "7", "2", "9", "5">> @@
    "4294967296" :> <<"4", "2", "9", "4", "9", "6", "7", "2", "9", "6">> @@
    "ref" :> <<"r", "e", "f">> @@
    "missing" :> <<"m", "i", "s", "s", "i", "n", "g">> @@
    "[" :> <<"[">> @@
    "*" :> <<"*">> @@
    "r*" :> <<"r", "*">> @@
    "d.*" :> <<"d", ".", "*">> @@
    "-type" :> <<"-", "t", "y", "p", "e">> @@
    "-amin" :> <<"-", "a", "m", "i", "n">> @@
    "-atime" :> <<"-", "a", "t", "i", "m", "e">> @@
    "-cmin" :> <<"-", "c", "m", "i", "n">> @@
    "-ctime" :> <<"-", "c", "t", "i", "m", "e">> @@
    "-mmin" :> <<"-", "m", "m", "i", "n">> @@
    "-mtime" :> <<"-", "m", "t", "i", "m", "e">> @@
    "d" :> <<"d">> @@
    "f" :> <<"f">> @@
    "1" :> <<"1">> @@
    "30" :> <<"3", "0">> @@
    "31" :> <<"3", "1">> @@
    "7" :> <<"7">> @@
    "+30" :> <<"+", "3", "0">> @@
    "-31" :> <<"-", "3", "1">> @@
    "+x" :> <<"+", "x">> @@
    "18446744073709551616" :>
        <<"1", "8", "4", "4", "6", "7", "4", "4", "0", "7", "3", "7", "0", "9", "5", "5",
          "1", "6", "1", "6">> @@
    "-size" :> <<"-", "s", "i", "z", "e">> @@
    "2" :> <<"2">> @@
    "2048" :> <<"2", "0", "4", "8">> @@
    "1k" :> <<"1", "k">> @@
    "+1c" :> <<"+", "1", "c">> @@
    "-2k" :> <<"-", "2", "k">> @@
    "2048c" :> <<"2", "0", "4", "8", "c">> @@
    "+2" :> <<"+", "2">> @@
    "-7c" :> <<"-", "7", "c">> @@
    "0G" :> <<"0", "G">> @@
    "1x" :> <<"1", "x">> @@
    "18014398509481984" :>
        <<"1", "8", "0", "1", "4", "3", "9", "8", "5", "0", "9", "4", "8", "1", "9", "8", "4">> @@
    "18014398509481984G" :>
        <<"1", "8", "0", "1", "4", "3", "9", "8", "5", "0", "9", "4", "8", "1", "9", "8", "4",
          "G">> @@
    "18446744073709551616c" :>
        <<"1", "8", "4", "4", "6", "7", "4", "4", "0", "7", "3", "7", "0", "9", "5", "5",
          "1", "6", "1", "6", "c">> @@
    "-perm" :> <<"-", "p", "e", "r", "m">> @@
    "644" :> <<"6", "4", "4">> @@
    "-044" :> <<"-", "0", "4", "4">> @@
    "044" :> <<"0", "4", "4">> @@
    "/200" :> <<"/", "2", "0", "0">> @@
    "200" :> <<"2", "0", "0">> @@
    "4755" :> <<"4", "7", "5", "5">> @@
    "-4000" :> <<"-", "4", "0", "0", "0">> @@
    "4000" :> <<"4", "0", "0", "0">> @@
    "755" :> <<"7", "5", "5">> @@
    "-755" :> <<"-", "7", "5", "5">> @@
    "/022" :> <<"/", "0", "2", "2">> @@
    "022" :> <<"0", "2", "2">> @@
    "-400" :> <<"-", "4", "0", "0">> @@
    "400" :> <<"4", "0", "0">> @@
    "/100" :> <<"/", "1", "0", "0">> @@
    "100" :> <<"1", "0", "0">> @@
    "888" :> <<"8", "8", "8">> @@
    "37777777777" :> <<"3", "7", "7", "7", "7", "7", "7", "7", "7", "7", "7">> @@
    "40000000000" :> <<"4", "0", "0", "0", "0", "0", "0", "0", "0", "0", "0">> @@
    "200000" :> <<"2", "0", "0", "0", "0", "0">> @@
    "-200000" :> <<"-", "2", "0", "0", "0", "0", "0">> @@
    "u+r" :> <<"u", "+", "r">> @@
    "-u+r" :> <<"-", "u", "+", "r">> @@
    "/u+x" :> <<"/", "u", "+", "x">> @@
    "/u+r" :> <<"/", "u", "+", "r">> @@
    "u=r,u+w" :> <<"u", "=", "r", ",", "u", "+", "w">> @@
    "u+w,u=r" :> <<"u", "+", "w", ",", "u", "=", "r">> @@
    "a=" :> <<"a", "=">> @@
    "g-w" :> <<"g", "-", "w">> @@
    "-g-w" :> <<"-", "g", "-", "w">> @@
    "o+x" :> <<"o", "+", "x">> @@
    "/o+wx" :> <<"/", "o", "+", "w", "x">> @@
    "-u+rwx,g+rx" :> <<"-", "u", "+", "r", "w", "x", ",", "g", "+", "r", "x">> @@
    "a=r,u+w" :> <<"a", "=", "r", ",", "u", "+", "w">> @@
    "u+q" :> <<"u", "+", "q">> @@
    "u+r," :> <<"u", "+", "r", ",">> @@
    "-ipath" :> <<"-", "i", "p", "a", "t", "h">> @@
    "my-dir" :> <<"m", "y", "-", "d", "i", "r">> @@
    "my" :> <<"m", "y">> @@
    "-dir" :> <<"-", "d", "i", "r">> @@
    "d1-true" :> <<"d", "1", "-", "t", "r", "u", "e">> @@
    "ABC" :> <<"A", "B", "C">> @@
    "R*" :> <<"R", "*">> @@
    "D1/ABC" :> <<"D", "1", "/", "A", "B", "C">> @@
    "*/Abc" :> <<"*", "/", "A", "b", "c">> @@
    "d1|abc" :> <<"d", "1", "|", "a", "b", "c">> @@
    "abc|d2" :> <<"a", "b", "c", "|", "d", "2">> @@
    "D1|ABC" :> <<"D", "1", "|", "A", "B", "C">> @@
    "D.*" :> <<"D", ".", "*">> @@
    "d1/abc|d2" :> <<"d", "1", "/", "a", "b", "c", "|", "d", "2">> @@
    "./ref" :> <<".", "/", "r", "e", "f">> @@
    "d1/abc" :> <<"d", "1", "/", "a", "b", "c">>

Vocabulary == DOMAIN Chars

\* The word with the given characters ("?" stands for any other text).
Word(cs) ==
    IF \E w \in Vocabulary : Chars[w] = cs
    THEN CHOOSE w \in Vocabulary : Chars[w] = cs
    ELSE "?"

CharsOf(w) == IF w \in Vocabulary THEN Chars[w] ELSE <<"?">>

(***************************************************************************)
(* main, lines 20-76: the command line is joined with blanks, split at the *)
(* first '-', '(' or '!', and the two halves become roots and expression.  *)
(***************************************************************************)
RECURSIVE Join(_)
Join(ws) ==
    IF ws = <<>> THEN <<>>
    ELSE IF Len(ws) = 1 THEN CharsOf(ws[1])
    ELSE CharsOf(ws[1]) \o <<" ">> \o Join(Tail(ws))

\* str::find(c): the first position (from 1) of c, or Len + 1 if there is none.
RECURSIVE Find(_, _)
Find(cs, c) ==
    IF cs = <<>> THEN 1
    ELSE IF cs[1] = c THEN 1
    ELSE 1 + Find(Tail(cs), c)

Min(a, b) == IF a <= b THEN a ELSE b

split_pos(cmdline) ==
    Min(Min(Find(cmdline, "-"), Find(cmdline, "(")), Find(cmdline, "!"))

\* str::split(" ") followed by the filter on non-empty pieces; also the
\* pieces of a trimmed text between runs of blanks.
RECURSIVE SplitBlank(_, _)
SplitBlank(cs, cur) ==
    IF cs = <<>> THEN (IF cur = <<>> THEN <<>> ELSE <<Word(cur)>>)
    ELSE IF cs[1] = " "
         THEN (IF cur = <<>> THEN <<>> ELSE <<Word(cur)>>) \o SplitBlank(Tail(cs), <<>>)
         ELSE SplitBlank(Tail(cs), Append(cur, cs[1]))

HelpWords == {"-h", "--help"}

\* help_re matches a -h or --help delimited by blanks or the ends of cmdline.
help_re_is_match(ws) == \E i \in 1..Len(ws) : ws[i] \in HelpWords

main_dirs(ws) ==
    LET cmdline == Join(ws)
        p == split_pos(cmdline)
        d == SplitBlank(SubSeq(cmdline, 1, p - 1), <<>>)
    IN IF Len(d) = 0 THEN <<".">> ELSE d

\* main_expr with -false for the empty expression
main_expr_false(ws) ==
    LET cmdline == Join(ws)
        p == split_pos(cmdline)
        e == SplitBlank(SubSeq(cmdline, p, Len(cmdline)), <<>>)
    IN IF Len(e) = 0 THEN <<"-false">> ELSE e

main_expr(ws) ==
    LET cmdline == Join(ws)
        p == split_pos(cmdline)
        e == SplitBlank(SubSeq(cmdline, p, Len(cmdline)), <<>>)
    IN IF Len(e) = 0 THEN <<"-true">> ELSE e


(***************************************************************************)
(* The grammar (grammar.pest, used through FindCommandParser::parse at     *)
(* main.rs:78).  A pair is a rule name, the matched text of a leaf, and    *)
(* the child pairs.  The language and its precedence are those of the      *)
(* specification's grammar,                                                *)
(*     Program   := Expr                                                   *)
(*     Expr      := OrExpr                                                 *)
(*     OrExpr    := AndExpr ( "-or" AndExpr )*                             *)
(*     AndExpr   := UnaryExpr ( ["-and"] UnaryExpr )*                      *)
(*     UnaryExpr := ("-not" | "!")? Term                                   *)
(*     Term      := Test | "(" Expr ")"                                    *)
(* and the pairs carry the rule names parser.rs consumes: a chain with an  *)
(* operator is a BinaryExpr holding an AndExpr or OrExpr whose children    *)
(* are the first operand, then for each further operand the operator pair  *)
(* (if written) and the operand as an Expr; a chain of one operand is that *)
(* operand itself; a negation is a UnaryExpr holding Not and the Term.     *)
(***************************************************************************)
Pair(rule, str, inner) == [rule |-> rule, str |-> str, inner |-> inner]

GFail == [ok |-> FALSE, pair |-> Pair("None", "", <<>>), rest |-> <<>>]
GOk(pair, rest) == [ok |-> TRUE, pair |-> pair, rest |-> rest]

DigitValue ==
    "0" :> 0 @@ "1" :> 1 @@ "2" :> 2 @@ "3" :> 3 @@ "4" :> 4 @@
    "5" :> 5 @@ "6" :> 6 @@ "7" :> 7 @@ "8" :> 8 @@ "9" :> 9

NotWords == {"-not", "!"}
AndWords == {"-and"}
OrWords == {"-or"}

\* Test keywords without an argument, and with one, and the rule of each.
PlainTests == "-true" :> "True" @@ "-false" :> "False" @@ "-empty" :> "Empty"
ArgTests ==
    "-path" :> "Path" @@ "-ipath" :> "Ipath" @@ "-name" :> "Name" @@
    "-iname" :> "Iname" @@ "-regex" :> "Regex" @@ "-iregex" :> "Iregex" @@
    "-anewer" :> "Anewer" @@ "-cnewer" :> "Cnewer" @@
    "-mnewer" :> "Mnewer" @@ "-newer" :> "Newer" @@ "-user" :> "User" @@
    "-group" :> "Group" @@ "-uid" :> "Uid" @@ "-gid" :> "Gid"

\* -type <b|c|d|p|f|l|s>
FileTypes ==
    "b" :> "BlockFile" @@ "c" :> "CharFile" @@ "d" :> "Directory" @@
    "p" :> "NamedPipe" @@ "f" :> "RegularFile" @@ "l" :> "SymbolicLink" @@
    "s" :> "Socket"

\* -amin/-atime/-cmin/-ctime/-mmin/-mtime [+|-]<n>
TimeTests ==
    "-amin" :> "Amin" @@ "-atime" :> "Atime" @@ "-cmin" :> "Cmin" @@
    "-ctime" :> "Ctime" @@ "-mmin" :> "Mmin" @@ "-mtime" :> "Mtime"

Signs == "+" :> "Plus" @@ "-" :> "Minus"

\* -size [+|-]<n>[b|c|w|k|M|G]
SizeSuffixes ==
    "b" :> "Blocks" @@ "c" :> "Bytes" @@ "w" :> "Words" @@ "k" :> "Kb" @@
    "M" :> "Mb" @@ "G" :> "Gb"

ReservedWords ==
    {"(", ")", "-type", "-size", "-perm"} \cup NotWords \cup AndWords \cup OrWords
    \cup DOMAIN PlainTests \cup DOMAIN ArgTests \cup DOMAIN TimeTests

\* An argument is any text that is no parenthesis and does not begin like a
\* keyword or an operator.
IsArgument(w) == w \notin ReservedWords /\ CharsOf(w)[1] \notin {"-", "!", "(", ")"}

\* [+|-]<n>: the pairs of a TimeSpec, or <<>> if the characters cs are none
SignedNumber(cs) ==
    LET signed == cs # <<>> /\ cs[1] \in DOMAIN Signs
        ds == IF signed THEN Tail(cs) ELSE cs
    IN IF ds = <<>> \/ \E i \in 1..Len(ds) : ds[i] \notin DOMAIN DigitValue THEN <<>>
       ELSE (IF signed
             THEN <<Pair("Sign", cs[1], <<Pair(Signs[cs[1]], cs[1], <<>>)>>)>>
             ELSE <<>>)
            \o <<Pair("Number", Word(ds), <<>>)>>

\* [+|-]<n>[b|c|w|k|M|G]: the pairs of a SizeSpec, or <<>> if the characters
\* cs are none
SizeSpecPairs(cs) ==
    LET signed == cs # <<>> /\ cs[1] \in DOMAIN Signs
        body == IF signed THEN Tail(cs) ELSE cs
        suffixed == body # <<>> /\ body[Len(body)] \in DOMAIN SizeSuffixes
        ds == IF suffixed THEN SubSeq(body, 1, Len(body) - 1) ELSE body
    IN IF ds = <<>> \/ \E i \in 1..Len(ds) : ds[i] \notin DOMAIN DigitValue THEN <<>>
       ELSE (IF signed
             THEN <<Pair("Sign", cs[1], <<Pair(Signs[cs[1]], cs[1], <<>>)>>)>>
             ELSE <<>>)
            \o <<Pair("Number", Word(ds), <<>>)>>
            \o (IF suffixed
                THEN <<Pair("SizeSuffix", body[Len(body)],
                            <<Pair(SizeSuffixes[body[Len(body)]], body[Len(body)], <<>>)>>)>>
                ELSE <<>>)

\* -perm [-|/]<octal|symbolic>, a symbolic term being statements
\* <u|g|o|a><+|-|=><r|w|x>* between commas
PermPrefixes == "-" :> "PermAllMode" @@ "/" :> "PermAnyMode"
SymPrincipals ==
    "u" :> "SymPrincipalUser" @@ "g" :> "SymPrincipalGroup" @@
    "o" :> "SymPrincipalOther" @@ "a" :> "SymPrincipalAll"
SymPermOperators ==
    "+" :> "SymPermOperAdd" @@ "-" :> "SymPermOperRemove" @@ "=" :> "SymPermOperSet"
SymPermPrivs == "r" :> "SymPermRead" @@ "w" :> "SymPermWrite" @@ "x" :> "SymPermExecute"

\* the pieces of cs between commas
RECURSIVE SplitComma(_, _)
SplitComma(cs, cur) ==
    IF cs = <<>> THEN <<cur>>
    ELSE IF cs[1] = "," THEN <<cur>> \o SplitComma(Tail(cs), <<>>)
    ELSE SplitComma(Tail(cs), Append(cur, cs[1]))

\* a leaf pair around the pair of the alternative that c is
Alternative(rule, table, c) == Pair(rule, c, <<Pair(table[c], c, <<>>)>>)

\* the pairs of the children of a Perm, or <<>> if the characters cs are no
\* PermSpec
PermPairs(cs) ==
    LET prefixed == cs # <<>> /\ cs[1] \in DOMAIN PermPrefixes
        body == IF prefixed THEN Tail(cs) ELSE cs
        stmts == SplitComma(body, <<>>)
        numeric == body # <<>> /\ \A i \in 1..Len(body) :
                                     body[i] \in {"0", "1", "2", "3", "4", "5", "6", "7"}
        symbolic == \A k \in 1..Len(stmts) :
                        /\ Len(stmts[k]) >= 2
                        /\ stmts[k][1] \in DOMAIN SymPrincipals
                        /\ stmts[k][2] \in DOMAIN SymPermOperators
                        /\ \A i \in 3..Len(stmts[k]) : stmts[k][i] \in DOMAIN SymPermPrivs
        term == IF numeric THEN Pair("NumPermTerm", Word(body), <<>>)
                ELSE Pair("SymPermTerm", "",
                          [k \in 1..Len(stmts) |->
                              Pair("SymPermTermStmt", "",
                                   [i \in 1..Len(stmts[k]) |->
                                       CASE i = 1 -> Alternative("SymPrincipal", SymPrincipals,
                                                                 stmts[k][i])
                                         [] i = 2 -> Alternative("SymPermOperator",
                                                                 SymPermOperators, stmts[k][i])
                                         [] OTHER -> Alternative("SymPermPriv", SymPermPrivs,
                                                                 stmts[k][i])])])
    IN IF ~numeric /\ ~symbolic THEN <<>>
       ELSE (IF prefixed THEN <<Alternative("PermPrefix", PermPrefixes, cs[1])>> ELSE <<>>)
            \o <<Pair("PermTerm", "", <<term>>)>>

GTest(toks) ==
    IF toks = <<>> THEN GFail
    ELSE IF toks[1] = "-perm" /\ Len(toks) >= 2 /\ PermPairs(CharsOf(toks[2])) # <<>>
    THEN GOk(Pair("Test", "", <<Pair("Perm", "", PermPairs(CharsOf(toks[2])))>>),
             Tail(Tail(toks)))
    ELSE IF toks[1] = "-size" /\ Len(toks) >= 2 /\ SizeSpecPairs(CharsOf(toks[2])) # <<>>
    THEN GOk(Pair("Test", "",
                  <<Pair("Size", "",
                         <<Pair("SizeSpec", toks[2], SizeSpecPairs(CharsOf(toks[2])))>>)>>),
             Tail(Tail(toks)))
    ELSE IF toks[1] = "-type" /\ Len(toks) >= 2 /\ toks[2] \in DOMAIN FileTypes
    THEN GOk(Pair("Test", "",
                  <<Pair("Type", "",
                         <<Pair("FileType", toks[2],
                                <<Pair(FileTypes[toks[2]], toks[2], <<>>)>>)>>)>>),
             Tail(Tail(toks)))
    ELSE IF /\ toks[1] \in DOMAIN TimeTests
            /\ Len(toks) >= 2
            /\ SignedNumber(CharsOf(toks[2])) # <<>>
    THEN GOk(Pair("Test", "",
                  <<Pair(TimeTests[toks[1]], "",
                         <<Pair("TimeSpec", toks[2], SignedNumber(CharsOf(toks[2])))>>)>>),
             Tail(Tail(toks)))
    ELSE IF toks[1] \in DOMAIN PlainTests
    THEN GOk(Pair("Test", "", <<Pair(PlainTests[toks[1]], toks[1], <<>>)>>), Tail(toks))
    ELSE IF toks[1] \in DOMAIN ArgTests /\ Len(toks) >= 2 /\ IsArgument(toks[2])
    THEN GOk(Pair("Test", "",
                  <<Pair(ArgTests[toks[1]], "", <<Pair("Argument", toks[2], <<>>)>>)>>),
             Tail(Tail(toks)))
    ELSE GFail

\* A chain's pair: the single operand, or the BinaryExpr around the chain.
Chain(rule, children) ==
    IF Len(children) = 1 THEN children[1]
    ELSE Pair("BinaryExpr", "", <<Pair(rule, "", children)>>)

\* The recursive descent, one arm per rule of the grammar; children are the
\* pairs of the chain collected so far (for the two repetition arms).
RECURSIVE Descend(_, _, _)
Descend(rule, toks, children) ==
    CASE rule = "Term" ->
            LET t == GTest(toks) IN
            IF t.ok THEN GOk(Pair("Term", "", <<t.pair>>), t.rest)
            ELSE IF toks # <<>> /\ toks[1] = "("
            THEN LET e == Descend("OrExpr", Tail(toks), <<>>) IN
                 IF e.ok /\ e.rest # <<>> /\ e.rest[1] = ")"
                 THEN GOk(Pair("Term", "", <<Pair("Expr", "", <<e.pair>>)>>), Tail(e.rest))
                 ELSE GFail
            ELSE GFail
      [] rule = "UnaryExpr" ->
            IF toks # <<>> /\ toks[1] \in NotWords
            THEN LET t == Descend("Term", Tail(toks), <<>>) IN
                 IF t.ok
                 THEN GOk(Pair("UnaryExpr", "", <<Pair("Not", toks[1], <<>>), t.pair>>), t.rest)
                 ELSE GFail
            ELSE Descend("Term", toks, <<>>)
      [] rule = "AndExpr" ->
            LET u == Descend("UnaryExpr", toks, <<>>) IN
            IF u.ok THEN Descend("AndTail", u.rest, <<u.pair>>) ELSE GFail
      [] rule = "AndTail" ->
            LET explicit == toks # <<>> /\ toks[1] \in AndWords
                u == Descend("UnaryExpr", IF explicit THEN Tail(toks) ELSE toks, <<>>)
                more == (IF explicit THEN <<Pair("AndOperator", toks[1], <<>>)>> ELSE <<>>)
                        \o <<Pair("Expr", "", <<u.pair>>)>>
            IN IF u.ok THEN Descend("AndTail", u.rest, children \o more)
               ELSE GOk(Chain("AndExpr", children), toks)
      [] rule = "OrExpr" ->
            LET a == Descend("AndExpr", toks, <<>>) IN
            IF a.ok THEN Descend("OrTail", a.rest, <<a.pair>>) ELSE GFail
      [] rule = "OrTail" ->
            LET explicit == toks # <<>> /\ toks[1] \in OrWords
                a == IF explicit THEN Descend("AndExpr", Tail(toks), <<>>) ELSE GFail
            IN IF a.ok
               THEN Descend("OrTail", a.rest,
                            children \o <<Pair("OrOperator", toks[1], <<>>),
                                          Pair("Expr", "", <<a.pair>>)>>)
               ELSE GOk(Chain("OrExpr", children), toks)

\* FindCommandParser::parse(Rule::Program, &expr): Ok(pairs) when the whole
\* text is an Expr, Err otherwise.
GrammarParse(toks) ==
    LET e == Descend("OrExpr", toks, <<>>) IN
    IF e.ok /\ e.rest = <<>>
    THEN [ok |-> TRUE, pairs |-> <<Pair("Program", "", <<Pair("Expr", "", <<e.pair>>)>>)>>]
    ELSE [ok |-> FALSE, pairs |-> <<>>]

(***************************************************************************)
(* Results of the fallible operations: Ok(v), Err(e), or a panic (an       *)
(* unwrap or expect on a failure).                                         *)
(***************************************************************************)
Ok(v) == [st |-> "ok", v |-> v]
Err(e) == [st |-> "err", v |-> e]
Panic(msg) == [st |-> "panic", v |-> <<"Panic", msg>>]

UnexpectedRule(expected, found) == <<"UnexpectedRule", expected, found>>
InvalidNumber(text) == <<"InvalidNumber", text>>

\* Result::map_err with a constant error, and Result::map with a constructor
\* that puts a tag in front of the value
\* unwrap_or_default in place of map_err
unwrap_or_default(result, e) == IF result.st = "ok" THEN result ELSE Ok(<<0, 0>>)

map_err(result, e) == IF result.st = "ok" THEN result ELSE Err(e)
map_tag(tag, result) == IF result.st = "ok" THEN Ok(<<tag, result.v>>) ELSE result

(***************************************************************************)
(* str::parse::<u32> and str::parse::<u64>: an optional '+', then one or   *)
(* more decimal digits, accumulated with checked arithmetic.  An unsigned  *)
(* integer is kept as the sequence of its 16-bit limbs, the most           *)
(* significant first: two limbs for a u32, four for a u64.                 *)
(***************************************************************************)
Half == 2 ^ 16

Zero32 == <<0, 0>>
Zero64 == <<0, 0, 0, 0>>

\* limb * 10 plus the carry of the lower limbs, with the new carry in front
CarryInto(limb, lower) ==
    <<(limb * 10 + lower[1]) \div Half, (limb * 10 + lower[1]) % Half>> \o Tail(lower)

\* acc * 10 + d with the carry out of the top limb in front
RECURSIVE MulAddLimbs(_, _)
MulAddLimbs(acc, d) ==
    IF acc = <<>> THEN <<d>>
    ELSE CarryInto(acc[1], MulAddLimbs(Tail(acc), d))

\* limb * f plus the carry of the lower limbs, with the new carry in front
CarryTimes(limb, f, lower) ==
    <<(limb * f + lower[1]) \div Half, (limb * f + lower[1]) % Half>> \o Tail(lower)

\* acc * f + d for a factor f of at most 2^10 and d < f, the carry out of the
\* top limb in front
RECURSIVE TimesPlus(_, _, _)
TimesPlus(acc, f, d) ==
    IF acc = <<>> THEN <<d>>
    ELSE CarryTimes(acc[1], f, TimesPlus(Tail(acc), f, d))

\* checked_mul(10) and checked_add(d): the result and whether it overflowed
Checked(r) == [overflow |-> r[1] # 0, v |-> Tail(r)]
MulAdd10(acc, d) == Checked(MulAddLimbs(acc, d))

\* the digit loop of from_str_radix, acc being the outcome of the last step
RECURSIVE ParseDigits(_, _)
ParseDigits(cs, acc) ==
    IF acc.overflow THEN Err("PosOverflow")
    ELSE IF cs = <<>> THEN Ok(acc.v)
    ELSE IF cs[1] \notin DOMAIN DigitValue THEN Err("InvalidDigit")
    ELSE ParseDigits(Tail(cs), MulAdd10(acc.v, DigitValue[cs[1]]))

\* the digits after an optional leading '+'
StripPlus(cs) == IF cs # <<>> /\ cs[1] = "+" THEN Tail(cs) ELSE cs

ParseUnsigned(w, zero) ==
    IF StripPlus(CharsOf(w)) = <<>> THEN Err("Empty")
    ELSE ParseDigits(StripPlus(CharsOf(w)), [overflow |-> FALSE, v |-> zero])

\* the digit loop of from_str_radix(_, 8) on a u32
RECURSIVE ParseOctalDigits(_, _)
ParseOctalDigits(cs, acc) ==
    IF acc.overflow THEN Err("PosOverflow")
    ELSE IF cs = <<>> THEN Ok(acc.v)
    ELSE IF cs[1] \notin {"0", "1", "2", "3", "4", "5", "6", "7"} THEN Err("InvalidDigit")
    ELSE ParseOctalDigits(Tail(cs), Checked(TimesPlus(acc.v, 8, DigitValue[cs[1]])))

\* u32::from_str_radix(w, 8)
from_str_radix_8(w) ==
    IF StripPlus(CharsOf(w)) = <<>> THEN Err("Empty")
    ELSE ParseOctalDigits(StripPlus(CharsOf(w)), [overflow |-> FALSE, v |-> Zero32])

ParseU32(w) == ParseUnsigned(w, Zero32)
ParseU64(w) == ParseUnsigned(w, Zero64)

\* a small natural number as a u64
ToU64(n) == <<0, 0, n \div Half, n % Half>>

\* a < b on limbs of the same width
RECURSIVE LimbsLess(_, _)
LimbsLess(a, b) ==
    IF a = <<>> THEN FALSE
    ELSE IF a[1] # b[1] THEN a[1] < b[1]
    ELSE LimbsLess(Tail(a), Tail(b))

(***************************************************************************)
(* parser.rs: the parse tree to the AST.  An Expr is <<"Not", e>>,         *)
(* <<"And", l, r>>, <<"Or", l, r>> or <<"Test", t>>; a Test is its variant *)
(* name followed by its fields.                                            *)
(***************************************************************************)
Not(e) == <<"Not", e>>
\* an And that hangs what is already folded under its right operand
AndToTheRight(l, r) == IF l[1] = "And" THEN <<"And", l[2], <<"And", l[3], r>>>> ELSE <<"And", l, r>>
And(l, r) == <<"And", l, r>>
Or(l, r) == <<"Or", l, r>>
TestNode(t) == <<"Test", t>>

\* inner.next().unwrap() and as_str() of the argument pair of a test
FirstInner(pair) == pair.inner[1]

parse_filetype(pair) ==
    IF pair.inner = <<>> THEN Panic("unwrap on None")
    ELSE LET inner == FirstInner(pair) IN
         IF inner.rule \in {"BlockFile", "CharFile", "Directory", "NamedPipe",
                            "RegularFile", "SymbolicLink", "Socket"}
         THEN Ok(inner.rule)
         ELSE Err(UnexpectedRule("FileType", inner.rule))

\* one iteration of the for loop of parse_timespec on the child inner, the
\* TimeSpec so far being spec = <<sign, value>>
timespec_arm(inner, spec) ==
    CASE inner.rule = "Sign" ->
            IF inner.inner = <<>> THEN Panic("unwrap on None")
            ELSE Ok(<<IF FirstInner(inner).rule \in {"Plus", "Minus"}
                      THEN FirstInner(inner).rule ELSE "None",
                      spec[2]>>)
      [] inner.rule = "Number" ->
            map_tag(spec[1], map_err(ParseU64(inner.str), InvalidNumber(inner.str)))
      [] OTHER -> Ok(spec)

\* the for loop of parse_timespec from child i on
RECURSIVE TimespecLoop(_, _, _)
TimespecLoop(pair, i, spec) ==
    IF spec.st # "ok" \/ i > Len(pair.inner) THEN spec
    ELSE TimespecLoop(pair, i + 1, timespec_arm(pair.inner[i], spec.v))

parse_timespec(pair) == TimespecLoop(pair, 1, Ok(<<"None", Zero64>>))

\* field = f(..)?: the value of an Ok becomes field i of the spec so far, an
\* Err is returned; and vec.push(f(..)?)
set_field(spec, i, result) ==
    IF result.st = "ok" THEN Ok([spec EXCEPT ![i] = result.v]) ELSE result
push(vec, result) ==
    IF result.st = "ok" THEN Ok(Append(vec, result.v)) ELSE result

\* one iteration of the for loop of parse_sizespec on the child inner, the
\* SizeSpec so far being spec = <<sign, value, suffix>>
sizespec_arm(inner, spec) ==
    CASE inner.rule = "Sign" ->
            IF inner.inner = <<>> THEN Panic("unwrap on None")
            ELSE Ok([spec EXCEPT ![1] = IF FirstInner(inner).rule \in {"Plus", "Minus"}
                                         THEN FirstInner(inner).rule ELSE "None"])
      [] inner.rule = "Number" ->
            set_field(spec, 2, map_err(ParseU64(inner.str), InvalidNumber(inner.str)))
      [] inner.rule = "SizeSuffix" ->
            IF inner.inner = <<>> THEN Panic("unwrap on None")
            ELSE IF FirstInner(inner).rule \in {"Blocks", "Bytes", "Words", "Kb", "Mb", "Gb"}
                 THEN Ok([spec EXCEPT ![3] = FirstInner(inner).rule])
                 ELSE Err(UnexpectedRule("SizeSuffix", FirstInner(inner).rule))
      [] OTHER -> Ok(spec)

\* the for loop of parse_sizespec from child i on
RECURSIVE SizespecLoop(_, _, _)
SizespecLoop(pair, i, spec) ==
    IF spec.st # "ok" \/ i > Len(pair.inner) THEN spec
    ELSE SizespecLoop(pair, i + 1, sizespec_arm(pair.inner[i], spec.v))

parse_sizespec(pair) == SizespecLoop(pair, 1, Ok(<<"None", Zero64, "None">>))

parse_perm_prefix(pair) ==
    IF pair.inner = <<>> THEN Panic("unwrap on None")
    ELSE CASE FirstInner(pair).rule = "PermAllMode" -> Ok("AllMode")
           [] FirstInner(pair).rule = "PermAnyMode" -> Ok("AnyMode")
           [] OTHER -> Err(UnexpectedRule("PermAllMode or PermAnyMode", FirstInner(pair).rule))

parse_sym_principal(pair) ==
    IF pair.inner = <<>> THEN Panic("unwrap on None")
    ELSE CASE FirstInner(pair).rule = "SymPrincipalUser" -> Ok("User")
           [] FirstInner(pair).rule = "SymPrincipalGroup" -> Ok("Group")
           [] FirstInner(pair).rule = "SymPrincipalOther" -> Ok("Other")
           [] FirstInner(pair).rule = "SymPrincipalAll" -> Ok("All")
           [] OTHER -> Err(UnexpectedRule("SymPrincipal variant", FirstInner(pair).rule))

parse_sym_perm_operator(pair) ==
    IF pair.inner = <<>> THEN Panic("unwrap on None")
    ELSE CASE FirstInner(pair).rule = "SymPermOperAdd" -> Ok("Add")
           [] FirstInner(pair).rule = "SymPermOperRemove" -> Ok("Remove")
           [] FirstInner(pair).rule = "SymPermOperSet" -> Ok("Set")
           [] OTHER -> Err(UnexpectedRule("SymPermOperator variant", FirstInner(pair).rule))

parse_sym_perm_priv(pair) ==
    IF pair.inner = <<>> THEN Panic("unwrap on None")
    ELSE CASE FirstInner(pair).rule = "SymPermRead" -> Ok("Read")
           [] FirstInner(pair).rule = "SymPermWrite" -> Ok("Write")
           [] FirstInner(pair).rule = "SymPermExecute" -> Ok("Execute")
           [] OTHER -> Err(UnexpectedRule("SymPermPriv variant", FirstInner(pair).rule))

\* the while-let loop of parse_sym_perm_term_stmt from child i on
RECURSIVE PrivLoop(_, _, _)
PrivLoop(pair, i, privileges) ==
    IF privileges.st # "ok" \/ i > Len(pair.inner) THEN privileges
    ELSE PrivLoop(pair, i + 1,
                  IF pair.inner[i].rule = "SymPermPriv"
                  THEN push(privileges.v, parse_sym_perm_priv(pair.inner[i]))
                  ELSE privileges)

\* a SymPermStatement is <<<<principal, operator>>, privileges>>
parse_sym_perm_term_stmt(pair) ==
    IF Len(pair.inner) < 1 THEN Err(UnexpectedRule("SymPrincipal", "None"))
    ELSE IF parse_sym_principal(pair.inner[1]).st # "ok"
    THEN parse_sym_principal(pair.inner[1])
    ELSE IF Len(pair.inner) < 2 THEN Err(UnexpectedRule("SymPermOperator", "None"))
    ELSE IF parse_sym_perm_operator(pair.inner[2]).st # "ok"
    THEN parse_sym_perm_operator(pair.inner[2])
    ELSE map_tag(<<parse_sym_principal(pair.inner[1]).v,
                   parse_sym_perm_operator(pair.inner[2]).v>>,
                 PrivLoop(pair, 3, Ok(<<>>)))

\* the for loop of parse_sym_perm_term from child i on
RECURSIVE SymTermLoop(_, _, _)
SymTermLoop(pair, i, statements) ==
    IF statements.st # "ok" \/ i > Len(pair.inner) THEN statements
    ELSE SymTermLoop(pair, i + 1,
                     IF pair.inner[i].rule = "SymPermTermStmt"
                     THEN push(statements.v, parse_sym_perm_term_stmt(pair.inner[i]))
                     ELSE statements)

parse_sym_perm_term(pair) == SymTermLoop(pair, 1, Ok(<<>>))

\* a PermTerm is <<"Numeric", u32>> or <<"Symbolic", statements>>
parse_perm_term(pair) ==
    IF pair.inner = <<>> THEN Panic("unwrap on None")
    ELSE CASE FirstInner(pair).rule = "NumPermTerm" ->
                map_tag("Numeric", map_err(from_str_radix_8(FirstInner(pair).str),
                                           InvalidNumber(FirstInner(pair).str)))
           [] FirstInner(pair).rule = "SymPermTerm" ->
                map_tag("Symbolic", parse_sym_perm_term(FirstInner(pair)))
           [] OTHER -> Err(UnexpectedRule("NumPermTerm or SymPermTerm", FirstInner(pair).rule))

\* the while-let loop of parse_perm_rule from pair i on and the ok_or that
\* follows it, the PermSpec so far being spec = <<prefix, term>>
RECURSIVE PermRuleLoop(_, _, _)
PermRuleLoop(pairs, i, spec) ==
    IF spec.st # "ok" THEN spec
    ELSE IF i > Len(pairs)
    THEN (IF spec.v[2] = <<"None">> THEN Err(UnexpectedRule("PermTerm", "None")) ELSE spec)
    ELSE PermRuleLoop(pairs, i + 1,
             CASE pairs[i].rule = "PermPrefix" ->
                    set_field(spec.v, 1, parse_perm_prefix(pairs[i]))
               [] pairs[i].rule = "PermTerm" ->
                    set_field(spec.v, 2, parse_perm_term(pairs[i]))
               [] OTHER -> spec)

parse_perm_rule(pairs) == PermRuleLoop(pairs, 1, Ok(<<"None", <<"None">>>>))

parse_test(pair) ==
    IF pair.inner = <<>> THEN Panic("unwrap on None")
    ELSE LET inner == FirstInner(pair) IN
    CASE inner.rule \in {"Path", "Ipath", "Name", "Iname", "Regex", "Iregex",
                         "Anewer", "Cnewer", "Mnewer", "Newer", "User", "Group"} ->
            IF inner.inner = <<>> THEN Panic("unwrap on None")
            ELSE Ok(<<inner.rule, FirstInner(inner).str>>)
      [] inner.rule \in {"True", "False", "Empty"} -> Ok(<<inner.rule>>)
      [] inner.rule = "Type" ->
            IF inner.inner = <<>> THEN Panic("unwrap on None")
            ELSE map_tag(inner.rule, parse_filetype(FirstInner(inner)))
      [] inner.rule = "Size" ->
            IF inner.inner = <<>> THEN Panic("unwrap on None")
            ELSE map_tag(inner.rule, parse_sizespec(FirstInner(inner)))
      [] inner.rule \in {"Amin", "Atime", "Ctime", "Cmin", "Mmin", "Mtime"} ->
            IF inner.inner = <<>> THEN Panic("unwrap on None")
            ELSE map_tag(inner.rule, parse_timespec(FirstInner(inner)))
      [] inner.rule \in {"Uid", "Gid"} ->
            IF inner.inner = <<>> THEN Panic("unwrap on None")
            ELSE map_tag(inner.rule,
                         map_err(ParseU32(FirstInner(inner).str),
                                 InvalidNumber(FirstInner(inner).str)))
      [] inner.rule = "Perm" -> map_tag(inner.rule, parse_perm_rule(inner.inner))
      [] OTHER -> Err(UnexpectedRule("Test variant", inner.rule))

\* the arm of the while-let loops of parse_and_expr and parse_or_expr that
\* a child pair takes: the operator arm (the operand is the next child), the
\* implicit arm (the child is the operand), or the arm that skips the child
\* and_arm without the arm of the implicit operand
and_arm_operator_only(rule) ==
    CASE rule = "AndOperator" -> "operator"
      [] OTHER -> "skip"

and_arm(rule) ==
    CASE rule = "AndOperator" -> "operator"
      [] rule = "Expr" -> "implicit"
      [] OTHER -> "skip"

or_arm(rule) ==
    CASE rule = "OrOperator" -> "operator"
      [] OTHER -> "skip"

\* term_arm without the arm of the parenthesised expression
term_arm_test_only(rule) ==
    CASE rule = "Test" -> "test"
      [] OTHER -> "unexpected"

\* the arm of parse_term for the pair inside a Term
term_arm(rule) ==
    CASE rule = "Test" -> "test"
      [] rule = "Expr" -> "parenthesized"
      [] OTHER -> "unexpected"

\* the function parse_expr dispatches a pair to
expr_arm(rule) ==
    CASE rule = "Expr" -> "parse_expr"
      [] rule = "UnaryExpr" -> "parse_unary_expr"
      [] rule = "BinaryExpr" -> "parse_binary_expr"
      [] rule = "Term" -> "parse_term"
      [] OTHER -> "unexpected"

\* The functions parse_expr, parse_unary_expr, parse_binary_expr,
\* parse_and_expr, parse_or_expr and parse_term, one arm each; "and_loop" and
\* "or_loop" are the while-let loops from child i on with the tree left
\* built so far.
RECURSIVE Convert(_, _, _, _)
Convert(fn, pair, i, left) ==
    CASE fn = "parse_expr" ->
            LET to == expr_arm(pair.rule) IN
            IF to = "unexpected" THEN Err(UnexpectedRule("Expr", pair.rule))
            ELSE IF to = "parse_expr"
                 THEN IF pair.inner = <<>> THEN Panic("unwrap on None")
                      ELSE Convert("parse_expr", FirstInner(pair), 0, <<>>)
                 ELSE Convert(to, pair, 0, <<>>)
      [] fn = "parse_unary_expr" ->
            IF Len(pair.inner) < 2 THEN Panic("unwrap on None")
            ELSE LET e == Convert("parse_term", pair.inner[2], 0, <<>>) IN
                 IF e.st = "ok" THEN Ok(Not(e.v)) ELSE e
      [] fn = "parse_binary_expr" ->
            IF pair.inner = <<>> THEN Panic("unwrap on None")
            ELSE LET inner == FirstInner(pair) IN
                 (CASE inner.rule = "AndExpr" -> Convert("parse_and_expr", inner, 0, <<>>)
                    [] inner.rule = "OrExpr" -> Convert("parse_or_expr", inner, 0, <<>>)
                    [] OTHER -> Err(UnexpectedRule("AndExpr or OrExpr", inner.rule)))
      [] fn = "parse_and_expr" ->
            IF pair.inner = <<>> THEN Panic("unwrap on None")
            ELSE LET first == Convert("parse_term", pair.inner[1], 0, <<>>) IN
                 IF first.st = "ok" THEN Convert("and_loop", pair, 2, first.v) ELSE first
      [] fn = "and_loop" ->
            IF i > Len(pair.inner) THEN Ok(left)
            ELSE LET arm == and_arm(pair.inner[i].rule) IN
                 (CASE arm = "operator" ->
                        IF i + 1 <= Len(pair.inner)
                        THEN LET right == Convert("parse_expr", pair.inner[i + 1], 0, <<>>) IN
                             IF right.st = "ok"
                             THEN Convert("and_loop", pair, i + 2, And(left, right.v))
                             ELSE right
                        ELSE Ok(left)
                   [] arm = "implicit" ->
                        LET right == Convert("parse_expr", pair.inner[i], 0, <<>>) IN
                        IF right.st = "ok"
                        THEN Convert("and_loop", pair, i + 1, And(left, right.v))
                        ELSE right
                   [] arm = "skip" -> Convert("and_loop", pair, i + 1, left))
      [] fn = "parse_or_expr" ->
            IF pair.inner = <<>> THEN Panic("unwrap on None")
            ELSE LET first == Convert("parse_term", pair.inner[1], 0, <<>>) IN
                 IF first.st = "ok" THEN Convert("or_loop", pair, 2, first.v) ELSE first
      [] fn = "or_loop" ->
            IF i > Len(pair.inner) THEN Ok(left)
            ELSE LET arm == or_arm(pair.inner[i].rule) IN
                 (CASE arm = "operator" ->
                        IF i + 1 <= Len(pair.inner)
                        THEN LET right == Convert("parse_expr", pair.inner[i + 1], 0, <<>>) IN
                             IF right.st = "ok"
                             THEN Convert("or_loop", pair, i + 2, Or(left, right.v))
                             ELSE right
                        ELSE Ok(left)
                   [] arm = "skip" -> Convert("or_loop", pair, i + 1, left))
      [] fn = "parse_term" ->
            IF pair.rule = "Term"
            THEN IF pair.inner = <<>> THEN Panic("unwrap on None")
                 ELSE LET inner == FirstInner(pair)
                          arm == term_arm(inner.rule)
                      IN (CASE arm = "test" -> map_tag("Test", parse_test(inner))
                            [] arm = "parenthesized" -> Convert("parse_expr", inner, 0, <<>>)
                            [] arm = "unexpected" ->
                                Err(UnexpectedRule("Test or Expr", inner.rule)))
            ELSE Err(UnexpectedRule("Term", pair.rule))

parse_expr(pair) == Convert("parse_expr", pair, 0, <<>>)

\* the for loop of parse_to_ast from pair i on
RECURSIVE ToAstLoop(_, _)
ToAstLoop(pairs, i) ==
    IF i > Len(pairs) THEN Err(UnexpectedRule("Program", "None"))
    ELSE CASE pairs[i].rule = "Program" ->
                IF pairs[i].inner # <<>> THEN parse_expr(FirstInner(pairs[i]))
                ELSE ToAstLoop(pairs, i + 1)
           [] pairs[i].rule = "Expr" -> parse_expr(pairs[i])
           [] OTHER -> ToAstLoop(pairs, i + 1)

parse_to_ast(pairs) == ToAstLoop(pairs, 1)

\* Display of ParseError (parser.rs:12-21) behind "Failed to build AST: "
Diagnostic(e) == <<"Failed to build AST", e>>


(***************************************************************************)
(* The file system the walker and the evaluator see.  An entry is what     *)
(* walkdir yields (path, file name) with what the metadata and owner       *)
(* lookups on it return:                                                   *)
(*   kind      the file type the metadata reports                          *)
(*   meta      TRUE iff entry.metadata() succeeds                          *)
(*   len       Metadata::len()                                             *)
(*   accessed, modified, created                                           *)
(*             <<t>> for Ok(t) with t in seconds, <<>> for Err             *)
(*   uid, gid  MetadataExt::uid(), gid()                                   *)
(*   owner     path.owner() and its name(): <<"Err">> (owner() fails),     *)
(*             <<"NameErr">> (name() fails), <<"None">> (the id has no     *)
(*             name), <<"Some", name>>                                     *)
(*   group     the name of the owning group, in the same form              *)
(*   mode      MetadataExt::mode(): file type and permission bits, a u32   *)
(***************************************************************************)
Entry(path, name, kind, meta, len, a, m, c, uid, gid, owner, group, mode) ==
    [path |-> path, name |-> name, kind |-> kind, meta |-> meta, len |-> len,
     accessed |-> a, modified |-> m, created |-> c,
     uid |-> uid, gid |-> gid, owner |-> owner, group |-> group, mode |-> mode]

\* SystemTime::now(), in seconds
Now == 48 * 3600

EDot ==
    Entry(".", ".", "Directory", TRUE, 1024, <<Now - 60>>, <<Now - 1800>>, <<Now - 100000>>,
          <<0, 0>>, <<0, 0>>, <<"Some", "abc">>, <<"Some", "ref">>, <<0, 16877>>)
ERef ==
    Entry("./ref", "ref", "RegularFile", TRUE, 0, <<Now - 3600>>, <<Now - 3600>>, <<>>,
          <<0, 7>>, <<0, 0>>, <<"None">>, <<"Some", "ref">>, <<0, 33188>>)
ED1 ==
    Entry("d1", "d1", "Directory", FALSE, 0, <<>>, <<>>, <<>>,
          <<0, 0>>, <<0, 0>>, <<"Err">>, <<"Err">>, <<0, 16832>>)
EAbc ==
    Entry("d1/abc", "abc", "RegularFile", TRUE, 7, <<Now - 1859>>, <<Now - 86400>>,
          <<Now - 90000>>, <<65535, 65535>>, <<0, 7>>, <<"Err">>, <<"Some", "abc">>,
          <<0, 35309>>)
ED2 ==
    Entry("d2", "d2", "Directory", TRUE, 0, <<Now + 60>>, <<Now + 60>>, <<Now + 60>>,
          <<0, 7>>, <<0, 7>>, <<"NameErr">>, <<"None">>, <<0, 16548>>)

Entries == {EDot, ERef, ED1, EAbc, ED2}

Item(e) == [ok |-> TRUE, entry |-> e]
WalkErr == [ok |-> FALSE, entry |-> ED1]

\* WalkDir::new(root).into_iter(): the items of a root, in order; a root
\* that does not exist yields one error.
WalkDir(root) ==
    CASE root = "." -> <<Item(EDot), Item(ERef)>>
      [] root = "d1" -> <<Item(ED1), WalkErr, Item(EAbc)>>
      [] root = "d2" -> <<Item(ED2)>>
      [] OTHER -> <<WalkErr>>

\* fs::metadata(filepath) of a reference file: <<metadata>> for Ok, <<>> for Err
fs_metadata(filepath) ==
    CASE filepath = "ref" -> <<ERef>>
      [] filepath = "d1/abc" -> <<EAbc>>
      [] OTHER -> <<>>

(***************************************************************************)
(* glob::Pattern: '?' is any character, '*' any sequence; a '[' that is    *)
(* not closed makes Pattern::new fail.                                     *)
(***************************************************************************)
RECURSIVE GlobMatches(_, _)
GlobMatches(p, t) ==
    IF p = <<>> THEN t = <<>>
    ELSE IF p[1] = "*"
         THEN GlobMatches(Tail(p), t) \/ (t # <<>> /\ GlobMatches(p, Tail(t)))
         ELSE /\ t # <<>>
              /\ (p[1] = "?" \/ p[1] = t[1])
              /\ GlobMatches(Tail(p), Tail(t))

PatternNewOk(p) ==
    \A i \in 1..Len(p) : p[i] = "[" => \E j \in (i + 2)..Len(p) : p[j] = "]"

(***************************************************************************)
(* interpreter.rs.  An evaluation returns its value, whether it panicked   *)
(* (an unwrap on a failed lookup) and the trace of what it did, in order:  *)
(* <<"test", pos, path>> when the leaf at position pos of the AST (the     *)
(* sequence of child numbers from the root) starts being evaluated,        *)
(* <<"metadata", pos, path>> for entry.metadata(), <<"stat", pos, path,    *)
(* file>> for fs::metadata(file), <<"owner", pos, path>> for path.owner(), *)
(* <<"value", pos, path, v>> when the leaf returns v; path is the path of  *)
(* the entry under evaluation.                                             *)
(***************************************************************************)
Value(v, log) == [v |-> v, panic |-> FALSE, log |-> log]
Unwound(log) == [v |-> FALSE, panic |-> TRUE, log |-> log]

\* str::to_lowercase
Lowercase == "A" :> "a" @@ "B" :> "b" @@ "C" :> "c" @@ "D" :> "d" @@ "R" :> "r"

to_lowercase(cs) ==
    [i \in 1..Len(cs) |-> IF cs[i] \in DOMAIN Lowercase THEN Lowercase[cs[i]] ELSE cs[i]]

match_glob_pattern(pattern, target, case_insensitive, log) ==
    IF PatternNewOk(CharsOf(pattern))
    THEN IF case_insensitive
         THEN Value(GlobMatches(CharsOf(pattern), to_lowercase(CharsOf(target))), log)
         ELSE Value(GlobMatches(CharsOf(pattern), CharsOf(target)), log)
    ELSE Value(FALSE, log)

match_path(pattern, entry, case_insensitive, log) ==
    match_glob_pattern(pattern, entry.path, case_insensitive, log)

match_name(pattern, entry, case_insensitive, log) ==
    match_glob_pattern(pattern, entry.name, case_insensitive, log)

(***************************************************************************)
(* regex::Regex for the patterns of the model: literal characters, '.',    *)
(* a postfix '*', the anchors '^' and '$', and '|' between alternatives.   *)
(* Regex::new fails on a '[' or '(' that is not closed; is_match looks for *)
(* a match anywhere in the text.                                           *)
(***************************************************************************)
RegexNewOk(p) ==
    /\ \A i \in 1..Len(p) : p[i] = "[" => \E j \in (i + 2)..Len(p) : p[j] = "]"
    /\ \A i \in 1..Len(p) : p[i] = "(" => \E j \in (i + 1)..Len(p) : p[j] = ")"

\* the alternatives of p, split at every '|'
RECURSIVE Alternatives(_, _)
Alternatives(p, cur) ==
    IF p = <<>> THEN <<cur>>
    ELSE IF p[1] = "|" THEN <<cur>> \o Alternatives(Tail(p), <<>>)
    ELSE Alternatives(Tail(p), Append(cur, p[1]))

Same(c, d, fold) == IF fold THEN to_lowercase(<<c>>) = to_lowercase(<<d>>) ELSE c = d

\* one alternative p matches t from position i on
RECURSIVE MatchHere(_, _, _, _)
MatchHere(p, t, i, fold) ==
    IF p = <<>> THEN TRUE
    ELSE IF p[1] = "^" THEN i = 1 /\ MatchHere(Tail(p), t, i, fold)
    ELSE IF p[1] = "$" THEN i = Len(t) + 1 /\ MatchHere(Tail(p), t, i, fold)
    ELSE IF Len(p) >= 2 /\ p[2] = "*"
         THEN \/ MatchHere(Tail(Tail(p)), t, i, fold)
              \/ /\ i <= Len(t)
                 /\ (p[1] = "." \/ Same(p[1], t[i], fold))
                 /\ MatchHere(p, t, i + 1, fold)
         ELSE /\ i <= Len(t)
              /\ (p[1] = "." \/ Same(p[1], t[i], fold))
              /\ MatchHere(Tail(p), t, i + 1, fold)

RegexIsMatch(p, t, fold) ==
    LET alts == Alternatives(p, <<>>) IN
    \E a \in 1..Len(alts) : \E i \in 1..(Len(t) + 1) : MatchHere(alts[a], t, i, fold)

match_regex(pattern, entry, log) ==
    LET anchored_pattern == <<"^">> \o CharsOf(pattern) \o <<"$">> IN
    IF RegexNewOk(anchored_pattern)
    THEN Value(RegexIsMatch(anchored_pattern, CharsOf(entry.path), FALSE), log)
    ELSE Value(FALSE, log)

match_iregex(pattern, entry, log) ==
    LET case_insensitive_pattern == <<"^">> \o CharsOf(pattern) \o <<"$">> IN
    IF RegexNewOk(case_insensitive_pattern)
    THEN Value(RegexIsMatch(case_insensitive_pattern, CharsOf(entry.path), TRUE), log)
    ELSE Value(FALSE, log)

\* the multiplier of a suffix, as the factors the source writes
multiplier(suffix) ==
    CASE suffix = "Bytes" -> <<1>>
      [] suffix = "Words" -> <<2>>
      [] suffix = "Kb" -> <<1024>>
      [] suffix = "Mb" -> <<1024, 1024>>
      [] suffix = "Gb" -> <<1024, 1024, 1024>>
      [] suffix \in {"Blocks", "None"} -> <<512>>

\* a u64 product: the low 64 bits and whether the product left the u64
Overflowing(overflow, r) == [overflow |-> overflow \/ r[1] # 0, v |-> Tail(r)]

\* value * multiplier on u64, factor by factor
RECURSIVE MulU64(_, _)
MulU64(acc, factors) ==
    IF factors = <<>> THEN acc
    ELSE MulU64(Overflowing(acc.overflow, TimesPlus(acc.v, factors[1], 0)), Tail(factors))

calculate_size_in_bytes(size_spec) ==
    MulU64([overflow |-> FALSE, v |-> size_spec[2]], multiplier(size_spec[3]))

\* the comparison of match_size; the product that left the u64 has panicked
\* under overflow checks and has wrapped without them
SizeCompare(sign, file_size, target_size, log) ==
    IF target_size.overflow /\ overflow_checks THEN Unwound(log)
    ELSE Value(CASE sign = "None" -> file_size = target_size.v
                 [] sign = "Plus" -> LimbsLess(target_size.v, file_size)
                 [] sign = "Minus" -> LimbsLess(file_size, target_size.v),
               log)

match_size(size_spec, entry, pos, log) ==
    IF ~entry.meta THEN Value(FALSE, Append(log, <<"metadata", pos, entry.path>>))
    ELSE SizeCompare(size_spec[1], ToU64(entry.len), calculate_size_in_bytes(size_spec),
                     Append(log, <<"metadata", pos, entry.path>>))

match_empty(entry, pos, log) ==
    LET l == Append(log, <<"metadata", pos, entry.path>>) IN
    IF ~entry.meta THEN Value(FALSE, l) ELSE Value(entry.len = 0, l)

\* time_getter(&metadata) for the kinds accessed, modified, created
Timestamp(metadata, kind) ==
    CASE kind = "accessed" -> metadata.accessed
      [] kind = "modified" -> metadata.modified
      [] kind = "created" -> metadata.created

match_type(file_type, entry, pos, log) ==
    LET l == Append(log, <<"metadata", pos, entry.path>>) IN
    IF ~entry.meta THEN Value(FALSE, l) ELSE Value(entry.kind = file_type, l)

\* compare_time_spec with >= and <= for the signs
compare_time_spec_inclusive(file_time, time_spec, time_unit_seconds) ==
    IF Now < file_time THEN FALSE
    ELSE LET time_ago == ToU64((Now - file_time) \div time_unit_seconds)
             target_time == time_spec[2]
         IN CASE time_spec[1] = "None" -> time_ago = target_time
              [] time_spec[1] = "Plus" -> ~LimbsLess(time_ago, target_time)
              [] time_spec[1] = "Minus" -> ~LimbsLess(target_time, time_ago)

compare_time_spec(file_time, time_spec, time_unit_seconds) ==
    IF Now < file_time THEN FALSE
    ELSE LET time_ago == ToU64((Now - file_time) \div time_unit_seconds)
             target_time == time_spec[2]
         IN CASE time_spec[1] = "None" -> time_ago = target_time
              [] time_spec[1] = "Plus" -> LimbsLess(target_time, time_ago)
              [] time_spec[1] = "Minus" -> LimbsLess(time_ago, target_time)

\* match_amin, match_atime, match_ctime, match_cmin, match_mmin, match_mtime:
\* the same body over a timestamp kind and a unit
match_time(time_spec, entry, kind, time_unit_seconds, pos, log) ==
    LET l == Append(log, <<"metadata", pos, entry.path>>) IN
    IF ~entry.meta THEN Value(FALSE, l)
    ELSE IF Timestamp(entry, kind) = <<>> THEN Value(FALSE, l)
    ELSE Value(compare_time_spec(Timestamp(entry, kind)[1], time_spec, time_unit_seconds), l)

\* compare_file_times with the reference file's metadata unwrapped
compare_file_times_unwrap(entry, filepath, kind, pos, log) ==
    LET l1 == Append(log, <<"metadata", pos, entry.path>>)
        l2 == Append(l1, <<"stat", pos, entry.path, filepath>>)
    IN IF ~entry.meta THEN Value(FALSE, l1)
       ELSE IF Timestamp(entry, kind) = <<>> THEN Value(FALSE, l1)
       ELSE IF fs_metadata(filepath) = <<>> THEN Unwound(l2)
       ELSE IF Timestamp(fs_metadata(filepath)[1], kind) = <<>> THEN Value(FALSE, l2)
       ELSE Value(Timestamp(entry, kind)[1] > Timestamp(fs_metadata(filepath)[1], kind)[1], l2)

\* compare_file_times with >= for the two timestamps
compare_file_times_inclusive(entry, filepath, kind, pos, log) ==
    LET l1 == Append(log, <<"metadata", pos, entry.path>>)
        l2 == Append(l1, <<"stat", pos, entry.path, filepath>>)
    IN IF ~entry.meta THEN Value(FALSE, l1)
       ELSE IF Timestamp(entry, kind) = <<>> THEN Value(FALSE, l1)
       ELSE IF fs_metadata(filepath) = <<>> THEN Value(FALSE, l2)
       ELSE IF Timestamp(fs_metadata(filepath)[1], kind) = <<>> THEN Value(FALSE, l2)
       ELSE Value(Timestamp(entry, kind)[1] >= Timestamp(fs_metadata(filepath)[1], kind)[1], l2)

compare_file_times(entry, filepath, kind, pos, log) ==
    LET l1 == Append(log, <<"metadata", pos, entry.path>>)
        l2 == Append(l1, <<"stat", pos, entry.path, filepath>>)
    IN IF ~entry.meta THEN Value(FALSE, l1)
       ELSE IF Timestamp(entry, kind) = <<>> THEN Value(FALSE, l1)
       ELSE IF fs_metadata(filepath) = <<>> THEN Value(FALSE, l2)
       ELSE IF Timestamp(fs_metadata(filepath)[1], kind) = <<>> THEN Value(FALSE, l2)
       ELSE Value(Timestamp(entry, kind)[1] > Timestamp(fs_metadata(filepath)[1], kind)[1], l2)

match_anewer(filepath, entry, pos, log) == compare_file_times(entry, filepath, "accessed", pos, log)
match_cnewer(filepath, entry, pos, log) == compare_file_times(entry, filepath, "created", pos, log)
match_mnewer(filepath, entry, pos, log) == compare_file_times(entry, filepath, "modified", pos, log)
match_newer(filepath, entry, pos, log) == match_mnewer(filepath, entry, pos, log)

\* entry.path().owner().unwrap() and o.name().unwrap().unwrap(), compared
\* with the argument
OwnerNameIs(name, entry, pos, log) ==
    LET l == Append(log, <<"owner", pos, entry.path>>) IN
    IF entry.owner[1] = "Some" THEN Value(name = entry.owner[2], l)
    ELSE Unwound(l)

\* the tail of match_user and match_group once the metadata is read: the
\* numeric comparison if the argument parses, the name comparison otherwise
IdOrName(parsed_id, file_id, name, entry, pos, log) ==
    IF parsed_id.st = "ok" THEN Value(file_id = parsed_id.v, log)
    ELSE OwnerNameIs(name, entry, pos, log)

match_user(username, entry, pos, log) ==
    IF ~entry.meta THEN Value(FALSE, Append(log, <<"metadata", pos, entry.path>>))
    ELSE IdOrName(ParseU32(username), entry.uid, username, entry, pos,
                  Append(log, <<"metadata", pos, entry.path>>))

match_group(groupname, entry, pos, log) ==
    IF ~entry.meta THEN Value(FALSE, Append(log, <<"metadata", pos, entry.path>>))
    ELSE IdOrName(ParseU32(groupname), entry.gid, groupname, entry, pos,
                  Append(log, <<"metadata", pos, entry.path>>))

match_uid(target_uid, entry, pos, log) ==
    LET l == Append(log, <<"metadata", pos, entry.path>>) IN
    IF ~entry.meta THEN Value(FALSE, l) ELSE Value(entry.uid = target_uid, l)

match_gid(target_gid, entry, pos, log) ==
    LET l == Append(log, <<"metadata", pos, entry.path>>) IN
    IF ~entry.meta THEN Value(FALSE, l) ELSE Value(entry.gid = target_gid, l)

\* a & b on n bits
RECURSIVE AndBits(_, _, _)
AndBits(a, b, n) ==
    IF n = 0 THEN 0
    ELSE (a % 2) * (b % 2) + 2 * AndBits(a \div 2, b \div 2, n - 1)

\* &, | and ! on u32
BitAnd(a, b) == [i \in 1..2 |-> AndBits(a[i], b[i], 16)]
BitOr(a, b) == [i \in 1..2 |-> a[i] + b[i] - AndBits(a[i], b[i], 16)]
BitNot(a) == [i \in 1..2 |-> Half - 1 - a[i]]

\* the exact comparison replaced by the all-mode one
match_numeric_perm_subset(target_perms, file_perms, prefix) ==
    CASE prefix = "None" -> BitAnd(file_perms, target_perms) = target_perms
      [] prefix = "AllMode" -> BitAnd(file_perms, target_perms) = target_perms
      [] prefix = "AnyMode" -> BitAnd(file_perms, target_perms) # Zero32

match_numeric_perm(target_perms, file_perms, prefix) ==
    CASE prefix = "None" -> file_perms = target_perms
      [] prefix = "AllMode" -> BitAnd(file_perms, target_perms) = target_perms
      [] prefix = "AnyMode" -> BitAnd(file_perms, target_perms) # Zero32

\* perm_bit shifted to the field of the principal: << 6, << 3, not at all,
\* or all three
principal_bits(principal, privilege) ==
    LET perm_bit == CASE privilege = "Read" -> 4
                      [] privilege = "Write" -> 2
                      [] privilege = "Execute" -> 1
    IN CASE principal = "User" -> <<0, perm_bit * 64>>
         [] principal = "Group" -> <<0, perm_bit * 8>>
         [] principal = "Other" -> <<0, perm_bit>>
         [] principal = "All" ->
                BitOr(BitOr(<<0, perm_bit * 64>>, <<0, perm_bit * 8>>), <<0, perm_bit>>)

\* the for loop over the privileges, the last one applied last
RECURSIVE get_permission_mask(_, _)
get_permission_mask(principal, privileges) ==
    IF privileges = <<>> THEN Zero32
    ELSE BitOr(get_permission_mask(principal, SubSeq(privileges, 1, Len(privileges) - 1)),
               principal_bits(principal, privileges[Len(privileges)]))

\* 0o700, 0o070, 0o007, 0o777
get_principal_mask(principal) ==
    CASE principal = "User" -> <<0, 448>>
      [] principal = "Group" -> <<0, 56>>
      [] principal = "Other" -> <<0, 7>>
      [] principal = "All" -> <<0, 511>>

\* Set without clearing the field of the principal
sym_statement_set_keeps(result_perms, perm_mask, statement) ==
    CASE statement[1][2] = "Add" -> BitOr(result_perms, perm_mask)
      [] statement[1][2] = "Remove" -> BitAnd(result_perms, BitNot(perm_mask))
      [] statement[1][2] = "Set" -> BitOr(result_perms, perm_mask)

\* one iteration of the for loop of symbolic_to_numeric
sym_statement(result_perms, perm_mask, statement) ==
    CASE statement[1][2] = "Add" -> BitOr(result_perms, perm_mask)
      [] statement[1][2] = "Remove" -> BitAnd(result_perms, BitNot(perm_mask))
      [] statement[1][2] = "Set" ->
            BitOr(BitAnd(result_perms, BitNot(get_principal_mask(statement[1][1]))),
                  perm_mask)

RECURSIVE symbolic_to_numeric(_, _)
symbolic_to_numeric(statements, current_perms) ==
    IF statements = <<>> THEN current_perms
    ELSE symbolic_to_numeric(
             Tail(statements),
             sym_statement(current_perms,
                           get_permission_mask(statements[1][1][1], statements[1][2]),
                           statements[1]))

match_symbolic_perm(statements, file_perms, prefix) ==
    match_numeric_perm(symbolic_to_numeric(statements, file_perms), file_perms, prefix)

\* match_perm with file_mode & 0o7777 as file_perms
match_perm_with_special_bits(perm_spec, entry, pos, log) ==
    IF ~entry.meta THEN Value(FALSE, Append(log, <<"metadata", pos, entry.path>>))
    ELSE Value(CASE perm_spec[2][1] = "Numeric" ->
                      match_numeric_perm(perm_spec[2][2], BitAnd(entry.mode, <<0, 4095>>),
                                         perm_spec[1])
                 [] perm_spec[2][1] = "Symbolic" ->
                      match_symbolic_perm(perm_spec[2][2], BitAnd(entry.mode, <<0, 4095>>),
                                          perm_spec[1]),
               Append(log, <<"metadata", pos, entry.path>>))

\* file_perms is file_mode & 0o777
match_perm(perm_spec, entry, pos, log) ==
    IF ~entry.meta THEN Value(FALSE, Append(log, <<"metadata", pos, entry.path>>))
    ELSE Value(CASE perm_spec[2][1] = "Numeric" ->
                      match_numeric_perm(perm_spec[2][2], BitAnd(entry.mode, <<0, 511>>),
                                         perm_spec[1])
                 [] perm_spec[2][1] = "Symbolic" ->
                      match_symbolic_perm(perm_spec[2][2], BitAnd(entry.mode, <<0, 511>>),
                                          perm_spec[1]),
               Append(log, <<"metadata", pos, entry.path>>))

\* the return of evaluate_test: the value joins the trace
Returned(pos, path, r) ==
    IF r.panic THEN r ELSE [r EXCEPT !.log = Append(r.log, <<"value", pos, path, r.v>>)]

evaluate_test(test, entry, pos) ==
    LET log == <<<<"test", pos, entry.path>>>> IN
    Returned(pos, entry.path,
    CASE test[1] = "Path" -> match_path(test[2], entry, FALSE, log)
      [] test[1] = "Name" -> match_name(test[2], entry, FALSE, log)
      [] test[1] = "Iname" -> match_name(test[2], entry, TRUE, log)
      [] test[1] = "Regex" -> match_regex(test[2], entry, log)
      [] test[1] = "True" -> Value(TRUE, log)
      [] test[1] = "False" -> Value(FALSE, log)
      [] test[1] = "Type" -> match_type(test[2], entry, pos, log)
      [] test[1] = "Size" -> match_size(test[2], entry, pos, log)
      [] test[1] = "Empty" -> match_empty(entry, pos, log)
      [] test[1] = "Amin" -> match_time(test[2], entry, "accessed", 60, pos, log)
      [] test[1] = "Atime" -> match_time(test[2], entry, "accessed", 24 * 60 * 60, pos, log)
      [] test[1] = "Ctime" -> match_time(test[2], entry, "created", 24 * 60 * 60, pos, log)
      [] test[1] = "Cmin" -> match_time(test[2], entry, "created", 60, pos, log)
      [] test[1] = "Mmin" -> match_time(test[2], entry, "modified", 60, pos, log)
      [] test[1] = "Mtime" -> match_time(test[2], entry, "modified", 24 * 60 * 60, pos, log)
      [] test[1] = "Anewer" -> match_anewer(test[2], entry, pos, log)
      [] test[1] = "Cnewer" -> match_cnewer(test[2], entry, pos, log)
      [] test[1] = "Mnewer" -> match_mnewer(test[2], entry, pos, log)
      [] test[1] = "Newer" -> match_newer(test[2], entry, pos, log)
      [] test[1] = "Ipath" -> match_path(test[2], entry, TRUE, log)
      [] test[1] = "Iregex" -> match_iregex(test[2], entry, log)
      [] test[1] = "User" -> match_user(test[2], entry, pos, log)
      [] test[1] = "Group" -> match_group(test[2], entry, pos, log)
      [] test[1] = "Uid" -> match_uid(test[2], entry, pos, log)
      [] test[1] = "Gid" -> match_gid(test[2], entry, pos, log)
      [] test[1] = "Perm" -> match_perm(test[2], entry, pos, log))

\* evaluate with & and | in place of && and ||: both operands always run
RECURSIVE EvaluateEagerly(_, _, _)
EvaluateEagerly(e, entry, pos) ==
    CASE e[1] = "Not" ->
            LET inner == EvaluateEagerly(e[2], entry, Append(pos, 1)) IN
            IF inner.panic THEN inner ELSE Value(~inner.v, inner.log)
      [] e[1] = "And" ->
            LET left == EvaluateEagerly(e[2], entry, Append(pos, 1))
                right == EvaluateEagerly(e[3], entry, Append(pos, 2))
            IN IF left.panic THEN left
               ELSE [right EXCEPT !.v = left.v /\ right.v, !.log = left.log \o right.log]
      [] e[1] = "Or" ->
            LET left == EvaluateEagerly(e[2], entry, Append(pos, 1))
                right == EvaluateEagerly(e[3], entry, Append(pos, 2))
            IN IF left.panic THEN left
               ELSE [right EXCEPT !.v = left.v \/ right.v, !.log = left.log \o right.log]
      [] e[1] = "Test" -> evaluate_test(e[2], entry, pos)

\* evaluate with a Not arm that negates tests only and passes the value of
\* any other operand through
RECURSIVE EvaluateNotOfTests(_, _, _)
EvaluateNotOfTests(e, entry, pos) ==
    CASE e[1] = "Not" ->
            LET inner == EvaluateNotOfTests(e[2], entry, Append(pos, 1)) IN
            IF inner.panic \/ e[2][1] # "Test" THEN inner ELSE Value(~inner.v, inner.log)
      [] e[1] = "And" ->
            LET left == EvaluateNotOfTests(e[2], entry, Append(pos, 1)) IN
            IF left.panic \/ ~left.v THEN left
            ELSE LET right == EvaluateNotOfTests(e[3], entry, Append(pos, 2)) IN
                 [right EXCEPT !.log = left.log \o right.log]
      [] e[1] = "Or" ->
            LET left == EvaluateNotOfTests(e[2], entry, Append(pos, 1)) IN
            IF left.panic \/ left.v THEN left
            ELSE LET right == EvaluateNotOfTests(e[3], entry, Append(pos, 2)) IN
                 [right EXCEPT !.log = left.log \o right.log]
      [] e[1] = "Test" -> evaluate_test(e[2], entry, pos)

\* Interpreter::evaluate on the sub-expression at position pos
RECURSIVE EvaluateAt(_, _, _)
EvaluateAt(e, entry, pos) ==
    CASE e[1] = "Not" ->
            LET inner == EvaluateAt(e[2], entry, Append(pos, 1)) IN
            IF inner.panic THEN inner ELSE Value(~inner.v, inner.log)
      [] e[1] = "And" ->
            LET left == EvaluateAt(e[2], entry, Append(pos, 1)) IN
            IF left.panic \/ ~left.v THEN left
            ELSE LET right == EvaluateAt(e[3], entry, Append(pos, 2)) IN
                 [right EXCEPT !.log = left.log \o right.log]
      [] e[1] = "Or" ->
            LET left == EvaluateAt(e[2], entry, Append(pos, 1)) IN
            IF left.panic \/ left.v THEN left
            ELSE LET right == EvaluateAt(e[3], entry, Append(pos, 2)) IN
                 [right EXCEPT !.log = left.log \o right.log]
      [] e[1] = "Test" -> evaluate_test(e[2], entry, pos)

\* an evaluator that remembers: once an entry was selected, every later one is
evaluate_remembering(e, entry) ==
    IF visited # <<>> /\ visited[Len(visited)].v
    THEN Value(TRUE, EvaluateAt(e, entry, <<>>).log)
    ELSE EvaluateAt(e, entry, <<>>)

evaluate(e, entry) == EvaluateAt(e, entry, <<>>)


(***************************************************************************)
(* The command lines of the model.                                         *)
(***************************************************************************)
RECURSIVE SeqsUpTo(_, _)
SeqsUpTo(S, n) ==
    IF n = 0 THEN {<<>>}
    ELSE LET shorter == SeqsUpTo(S, n - 1) IN
         shorter \cup {Append(q, x) : q \in shorter, x \in S}

CommandWords ==
    {"d1", "d2", "(", ")", "!", "-not", "-and", "-or", "-true", "-false",
     "-empty", "-uid", "-gid", "-newer", "-user", "-name", "-h", "-bogus",
     "0", "+7", "abc", "4294967295", "4294967296", "ref", "missing", "["}

\* every command line of at most MaxWords words
ShortLines == SeqsUpTo(CommandWords, MaxWords)

\* tests, written out
ChainTests == {<<"-true">>, <<"-false">>, <<"-empty">>, <<"-name", "abc">>}
Connectives == {<<"-and">>, <<"-or">>, <<>>}

\* test (connective test)*, with at most n tests
RECURSIVE Chains(_)
Chains(n) ==
    IF n = 1 THEN ChainTests
    ELSE LET shorter == Chains(n - 1) IN
         shorter \cup {c \o k \o t : c \in shorter, k \in Connectives, t \in ChainTests}

\* a parenthesised test or chain of two tests, alone or as an operand of a chain
Groups ==
    {<<"(">> \o a \o <<")">> : a \in ChainTests}
    \cup
    {<<"(">> \o a \o k \o b \o <<")">> : a \in ChainTests, k \in Connectives, b \in ChainTests}
Before == {<<>>, <<"-not">>} \cup {t \o k : t \in ChainTests, k \in Connectives}
After == {<<>>} \cup {k \o t : k \in Connectives, t \in ChainTests}
GroupLines == {p \o g \o q : p \in Before, g \in Groups, q \in After}

\* a negated test as the left or the right operand of a chain of two
NotLines ==
    {<<n>> \o a \o k \o b : n \in NotWords, a \in ChainTests, k \in Connectives, b \in ChainTests}
    \cup
    {a \o k \o <<n>> \o b : n \in NotWords, a \in ChainTests, k \in Connectives, b \in ChainTests}

\* tests with their arguments, well-formed or not
OtherTests ==
    {<<"-uid", "0">>, <<"-uid", "4294967295">>, <<"-uid", "abc">>, <<"-gid", "0">>,
     <<"-gid", "+7">>, <<"-gid", "4294967296">>,
     <<"-user", "0">>, <<"-user", "+7">>, <<"-user", "abc">>, <<"-user", "ref">>,
     <<"-user", "4294967296">>, <<"-group", "+7">>, <<"-group", "abc">>,
     <<"-newer", "ref">>, <<"-newer", "missing">>, <<"-mnewer", "ref">>,
     <<"-anewer", "ref">>, <<"-anewer", "missing">>, <<"-cnewer", "ref">>,
     <<"-cnewer", "missing">>, <<"-mnewer", "missing">>,
     <<"-anewer", "d1/abc">>, <<"-cnewer", "d1/abc">>, <<"-mnewer", "d1/abc">>,
     <<"-newer", "d1/abc">>,
     <<"-name", "abc">>, <<"-name", "r*">>, <<"-name", "[">>, <<"-iname", "[">>,
     <<"-path", "[">>, <<"-path", "d1/abc">>,
     <<"-regex", "[">>, <<"-regex", "d.*">>, <<"-regex", "abc">>, <<"-iregex", "[">>,
     <<"-type", "d">>, <<"-type", "f">>, <<"-type", "abc">>,
     <<"-mmin", "30">>, <<"-mmin", "+30">>, <<"-mmin", "-31">>, <<"-amin", "1">>,
     <<"-amin", "+x">>, <<"-cmin", "30">>, <<"-mtime", "1">>, <<"-atime", "0">>,
     <<"-ctime", "+7">>, <<"-mtime", "18446744073709551616">>,
     <<"-ctime", "1">>, <<"-mtime", "0">>, <<"-amin", "30">>, <<"-cmin", "+30">>,
     <<"-cmin", "-31">>, <<"-atime", "-31">>,
     <<"-size", "1k">>, <<"-size", "+1c">>, <<"-size", "-2k">>, <<"-size", "2">>,
     <<"-size", "2048c">>, <<"-size", "+2">>, <<"-size", "-7c">>, <<"-size", "0G">>,
     <<"-size", "0">>, <<"-size", "1x">>, <<"-size", "18014398509481984G">>,
     <<"-size", "18446744073709551616c">>,
     <<"-perm", "644">>, <<"-perm", "-044">>, <<"-perm", "/200">>, <<"-perm", "4755">>,
     <<"-perm", "-4000">>, <<"-perm", "755">>, <<"-perm", "-755">>, <<"-perm", "/022">>,
     <<"-perm", "-400">>, <<"-perm", "/100">>, <<"-perm", "888">>,
     <<"-perm", "37777777777">>, <<"-perm", "40000000000">>, <<"-perm", "-200000">>,
     <<"-perm", "u+r">>, <<"-perm", "-u+r">>, <<"-perm", "/u+x">>, <<"-perm", "/u+r">>,
     <<"-perm", "u=r,u+w">>, <<"-perm", "u+w,u=r">>, <<"-perm", "a=">>, <<"-perm", "g-w">>,
     <<"-perm", "-g-w">>, <<"-perm", "o+x">>, <<"-perm", "/o+wx">>,
     <<"-perm", "-u+rwx,g+rx">>, <<"-perm", "a=r,u+w">>, <<"-perm", "u+q">>,
     <<"-perm", "u+r,">>, <<"-perm">>,
     <<"-iname", "abc">>, <<"-iname", "ABC">>, <<"-iname", "r*">>, <<"-iname", "R*">>,
     <<"-ipath", "d1/abc">>, <<"-ipath", "D1/ABC">>, <<"-ipath", "*/Abc">>,
     <<"-regex", "d1|abc">>, <<"-regex", "abc|d2">>, <<"-regex", "d1/abc|d2">>,
     <<"-regex", "D.*">>, <<"-iregex", "D.*">>, <<"-iregex", "D1|ABC">>,
     <<"-iregex", "d1/abc">>, <<"-group", "ref">>, <<"-group", "0">>, <<"-group", "7">>,
     <<"-user", "7">>,
     <<"-bogus">>, <<"-uid">>, <<"(", "-true">>}

\* leading path arguments before nothing or one test
RootLines ==
    {r \o t : r \in SeqsUpTo({"d1", "d2"}, MaxRoots),
              t \in {<<>>} \cup ChainTests \cup OtherTests}
    \cup {<<".", "d1", "d2">> \o t : t \in OtherTests}

\* fully parenthesised expressions of exactly n nodes over a few tests
Leaves ==
    {<<"-true">>, <<"-false">>, <<"-empty">>, <<"-newer", "missing">>, <<"-user", "abc">>}

RECURSIVE Parenthesised(_)
Parenthesised(n) ==
    IF n = 1 THEN Leaves
    ELSE {<<"-not", "(">> \o e \o <<")">> : e \in Parenthesised(n - 1)}
         \cup UNION {{<<"(">> \o l \o <<")">> \o k \o <<"(">> \o r \o <<")">> :
                         l \in Parenthesised(i), k \in {<<"-and">>, <<"-or">>},
                         r \in Parenthesised(n - 1 - i)} : i \in 1..(n - 2)}

\* the three roots of the model before such an expression
EvalLines ==
    {<<".", "d1", "d2">> \o e : e \in UNION {Parenthesised(n) : n \in 1..MaxNodes}}

\* a leading path argument with a '-' inside
DashedLines ==
    {<<"my-dir">>, <<"my-dir", "-true">>, <<"d2", "my-dir", "-empty">>, <<"d1-true">>,
     <<"d2", "d1-true">>, <<"d1-true", "-name", "abc">>}

CommandLines ==
    ShortLines \cup Chains(MaxOperands) \cup GroupLines \cup NotLines
    \cup RootLines \cup EvalLines \cup DashedLines

(***************************************************************************)
(* main.                                                                   *)
(***************************************************************************)
Init ==
    /\ args \in CommandLines
    /\ pc = "start"
    /\ dirs = <<>>
    /\ expr = <<>>
    /\ parsed = <<>>
    /\ ast = <<>>
    /\ compiles = 0
    /\ di = 0
    /\ ei = 0
    /\ visited = <<>>
    /\ stdout = <<>>
    /\ stderr = <<>>
    /\ lookups = <<>>
    /\ overflow_checks \in BOOLEAN

\* main.rs:20-53: -h or --help prints the usage and exits
Help ==
    /\ pc = "start"
    /\ help_re_is_match(args)
    /\ pc' = "exit"
    /\ stdout' = Append(stdout, "Usage: findr [paths] -expression")
    /\ UNCHANGED <<args, dirs, expr, parsed, ast, compiles, di, ei, visited, stderr, lookups, overflow_checks>>

\* main.rs:55-76: roots and expression
SplitArgs ==
    /\ pc = "start"
    /\ ~help_re_is_match(args)
    /\ dirs' = main_dirs(args)
    /\ expr' = main_expr(args)
    /\ pc' = "parse"
    /\ UNCHANGED <<args, parsed, ast, compiles, di, ei, visited, stdout, stderr, lookups, overflow_checks>>

\* main.rs:78-79: FindCommandParser::parse(..).expect(..)
Parse ==
    /\ pc = "parse"
    /\ LET g == GrammarParse(expr) IN
       IF g.ok
       THEN /\ parsed' = g.pairs
            /\ pc' = "compile"
            /\ UNCHANGED stderr
       ELSE /\ pc' = "panicked"
            /\ stderr' = Append(stderr, <<"Panic", "Failed to parse command line">>)
            /\ UNCHANGED parsed
    /\ UNCHANGED <<args, dirs, expr, ast, compiles, di, ei, visited, stdout, lookups, overflow_checks>>

\* Compile with an Err arm that reports and goes on with Test(True)
CompileAndGoOn ==
    /\ pc = "compile"
    /\ compiles' = compiles + 1
    /\ LET r == parse_to_ast(parsed) IN
       CASE r.st = "ok" ->
              /\ ast' = r.v
              /\ pc' = "walk"
              /\ di' = 1
              /\ UNCHANGED stderr
         [] r.st = "err" ->
              /\ stderr' = Append(stderr, Diagnostic(r.v))
              /\ ast' = TestNode(<<"True">>)
              /\ pc' = "walk"
              /\ di' = 1
         [] r.st = "panic" ->
              /\ stderr' = Append(stderr, r.v)
              /\ pc' = "panicked"
              /\ UNCHANGED <<ast, di>>
    /\ UNCHANGED <<args, dirs, expr, parsed, ei, visited, stdout, lookups, overflow_checks>>

\* main.rs:81-82, 91-93: parse_to_ast and its two arms
Compile ==
    /\ pc = "compile"
    /\ compiles' = compiles + 1
    /\ LET r == parse_to_ast(parsed) IN
       CASE r.st = "ok" ->
              /\ ast' = r.v
              /\ pc' = "walk"
              /\ di' = 1
              /\ UNCHANGED stderr
         [] r.st = "err" ->
              /\ stderr' = Append(stderr, Diagnostic(r.v))
              /\ pc' = "done"
              /\ UNCHANGED <<ast, di>>
         [] r.st = "panic" ->
              /\ stderr' = Append(stderr, r.v)
              /\ pc' = "panicked"
              /\ UNCHANGED <<ast, di>>
    /\ UNCHANGED <<args, dirs, expr, parsed, ei, visited, stdout, lookups, overflow_checks>>

\* main.rs:84-88: the next item of the walk of dirs[di]; an error item is
\* dropped by filter_map, an entry is evaluated and printed if selected
Visit ==
    /\ pc = "walk"
    /\ di <= Len(dirs)
    /\ ei < Len(WalkDir(dirs[di]))
    /\ ei' = ei + 1
    /\ LET item == WalkDir(dirs[di])[ei + 1] IN
       IF ~item.ok
       THEN UNCHANGED <<pc, visited, stdout, stderr, lookups>>
       ELSE LET r == evaluate(ast, item.entry) IN
            /\ lookups' = Append(lookups, r.log)
            /\ IF r.panic
               THEN /\ pc' = "panicked"
                    /\ stderr' = Append(stderr, <<"Panic", "unwrap on a failed lookup">>)
                    /\ UNCHANGED <<visited, stdout>>
               ELSE /\ visited' = Append(visited, [entry |-> item.entry, v |-> r.v])
                    /\ stdout' = IF r.v THEN Append(stdout, item.entry.path) ELSE stdout
                    /\ UNCHANGED <<pc, stderr>>
    /\ UNCHANGED <<args, dirs, expr, parsed, ast, compiles, di, overflow_checks>>

\* main.rs:83: the walk of dirs[di] is over, the next root follows
NextRoot ==
    /\ pc = "walk"
    /\ di <= Len(dirs)
    /\ ei = Len(WalkDir(dirs[di]))
    /\ di' = di + 1
    /\ ei' = 0
    /\ UNCHANGED <<args, pc, dirs, expr, parsed, ast, compiles, visited, stdout, stderr, lookups, overflow_checks>>

\* main.rs:83-95: no root is left, main returns
Finish ==
    /\ pc = "walk"
    /\ di > Len(dirs)
    /\ pc' = "done"
    /\ UNCHANGED <<args, dirs, expr, parsed, ast, compiles, di, ei, visited, stdout, stderr, lookups, overflow_checks>>

Next == Help \/ SplitArgs \/ Parse \/ Compile \/ Visit \/ NextRoot \/ Finish

Spec == Init /\ [][Next]_vars

(***************************************************************************)
(* Vocabulary of the properties.                                           *)
(***************************************************************************)
\* the sub-expression of e at position pos
RECURSIVE SubExpr(_, _)
SubExpr(e, pos) == IF pos = <<>> THEN e ELSE SubExpr(e[pos[1] + 1], Tail(pos))

\* the positions of the nodes of e
RECURSIVE Positions(_)
Positions(e) ==
    {<<>>} \cup
    CASE e[1] = "Not" -> {<<1>> \o p : p \in Positions(e[2])}
      [] e[1] \in {"And", "Or"} ->
            {<<1>> \o p : p \in Positions(e[2])} \cup {<<2>> \o p : p \in Positions(e[3])}
      [] OTHER -> {}

\* the tests at the leaves of e
Leafs(e) == {SubExpr(e, p)[2] : p \in {q \in Positions(e) : SubExpr(e, q)[1] = "Test"}}

IsPrefix(p, q) == Len(p) <= Len(q) /\ SubSeq(q, 1, Len(p)) = p

\* the value of e on an entry by the truth tables, every test taken alone
RECURSIVE Denotes(_, _)
Denotes(e, entry) ==
    CASE e[1] = "Not" -> ~Denotes(e[2], entry)
      [] e[1] = "And" -> Denotes(e[2], entry) /\ Denotes(e[3], entry)
      [] e[1] = "Or" -> Denotes(e[2], entry) \/ Denotes(e[3], entry)
      [] e[1] = "Test" -> evaluate_test(e[2], entry, <<>>).v

EntryOf(path) == CHOOSE x \in Entries : x.path = path

\* the entries the walks of the roots yield, in order
RECURSIVE Yielded(_)
Yielded(roots) ==
    IF roots = <<>> THEN <<>>
    ELSE SelectSeq(WalkDir(roots[1]), LAMBDA item : item.ok) \o Yielded(Tail(roots))

\* w is the decimal text of an unsigned integer that is at most max (a
\* digit string without leading zeros): digits after an optional '+', and
\* not above max
RECURSIVE DropZeros(_)
DropZeros(ds) == IF Len(ds) > 1 /\ ds[1] = "0" THEN DropZeros(Tail(ds)) ELSE ds

RECURSIVE DigitsAtMost(_, _)
DigitsAtMost(ds, max) ==
    IF ds = <<>> THEN TRUE
    ELSE IF DigitValue[ds[1]] # DigitValue[max[1]] THEN DigitValue[ds[1]] < DigitValue[max[1]]
    ELSE DigitsAtMost(Tail(ds), Tail(max))

DecimalAtMost(cs, max) ==
    LET ds == StripPlus(cs) IN
    /\ ds # <<>>
    /\ \A i \in 1..Len(ds) : ds[i] \in DOMAIN DigitValue
    /\ \/ Len(DropZeros(ds)) < Len(max)
       \/ Len(DropZeros(ds)) = Len(max) /\ DigitsAtMost(DropZeros(ds), max)

U32Max == <<"4", "2", "9", "4", "9", "6", "7", "2", "9", "5">>
U64Max ==
    <<"1", "8", "4", "4", "6", "7", "4", "4", "0", "7", "3", "7", "0", "9", "5", "5",
      "1", "6", "1", "5">>
ValidU32(w) == DecimalAtMost(CharsOf(w), U32Max)
\* [+|-]<n> with n a u64
ValidCount(w) ==
    DecimalAtMost(IF CharsOf(w)[1] = "-" THEN Tail(CharsOf(w)) ELSE CharsOf(w), U64Max)

\* a User or Group test compared by name: its argument is no u32
NameBased(test) == test[1] \in {"User", "Group"} /\ ~ValidU32(test[2])

\* the multiplier of each unit, as factors of at most 2^10
UnitFactors ==
    "Blocks" :> <<512>> @@ "Bytes" :> <<1>> @@ "Words" :> <<2>> @@ "Kb" :> <<1024>> @@
    "Mb" :> <<1024, 1024>> @@ "Gb" :> <<1024, 1024, 1024>> @@ "None" :> <<512>>

\* the product of a number and factors, exact: one more limb for each factor
RECURSIVE ExactTimes(_, _)
ExactTimes(limbs, factors) ==
    IF factors = <<>> THEN limbs
    ELSE ExactTimes(TimesPlus(limbs, factors[1], 0), Tail(factors))

\* limbs with zeros in front, n limbs in all
Pad(limbs, n) ==
    [i \in 1..n |-> IF i <= n - Len(limbs) THEN 0 ELSE limbs[i - (n - Len(limbs))]]

\* the byte length len compared with value x multiplier as the sign says
SizeHolds(size_spec, len) ==
    LET target == ExactTimes(size_spec[2], UnitFactors[size_spec[3]])
        file == Pad(ToU64(len), Len(target))
    IN CASE size_spec[1] = "None" -> file = target
         [] size_spec[1] = "Plus" -> LimbsLess(target, file)
         [] size_spec[1] = "Minus" -> LimbsLess(file, target)

\* the product of a Size test does not fit a u64
SizeOverflows(test) ==
    /\ test[1] = "Size"
    /\ \E i \in 1..(Len(ExactTimes(test[2][2], UnitFactors[test[2][3]])) - 4) :
          ExactTimes(test[2][2], UnitFactors[test[2][3]])[i] # 0

\* what a test reads
MetadataTests ==
    {"Type", "Size", "Perm", "Empty", "Amin", "Atime", "Ctime", "Cmin", "Mmin", "Mtime",
     "Anewer", "Cnewer", "Mnewer", "Newer", "User", "Group", "Uid", "Gid"}
NewerTests == {"Anewer", "Cnewer", "Mnewer", "Newer"}
GlobTests == {"Path", "Ipath", "Name", "Iname"}
RegexTests == {"Regex", "Iregex"}
TimeKind(tag) ==
    CASE tag \in {"Amin", "Atime", "Anewer"} -> "accessed"
      [] tag \in {"Cmin", "Ctime", "Cnewer"} -> "created"
      [] tag \in {"Mmin", "Mtime", "Mnewer", "Newer"} -> "modified"
      [] OTHER -> "none"

\* the test cannot be resolved on the entry: unreadable metadata, a missing
\* timestamp, a missing reference file or one without the timestamp, a
\* pattern that does not compile
Unresolvable(test, entry) ==
    \/ test[1] \in MetadataTests /\ ~entry.meta
    \/ /\ TimeKind(test[1]) # "none"
       /\ Timestamp(entry, TimeKind(test[1])) = <<>>
    \/ /\ test[1] \in NewerTests
       /\ \/ fs_metadata(test[2]) = <<>>
          \/ Timestamp(fs_metadata(test[2])[1], TimeKind(test[1])) = <<>>
    \/ test[1] \in GlobTests /\ ~PatternNewOk(CharsOf(test[2]))
    \/ test[1] \in RegexTests /\ ~RegexNewOk(<<"^">> \o CharsOf(test[2]) \o <<"$">>)

\* the trace log holds the return of FALSE by the leaf at pos after event i
ReturnsFalse(log, i, pos) ==
    \E j \in (i + 1)..Len(log) :
        /\ log[j][1] = "value"
        /\ log[j][2] = pos
        /\ log[j][4] = FALSE

\* the walk went through: every yielded entry was evaluated, in order
WalkComplete ==
    /\ pc # "panicked"
    /\ Len(visited) = Len(lookups)
    /\ pc = "done" => [i \in 1..Len(visited) |-> visited[i].entry]
                      = [i \in 1..Len(Yielded(dirs)) |-> Yielded(dirs)[i].entry]

(***************************************************************************)
(* C1.  evaluate short-circuits from left to right: in every evaluation    *)
(* and at every And or Or node, the right operand is evaluated only if the *)
(* left operand is true (And) or false (Or), and then only after the left  *)
(* operand has been evaluated to its end; an evaluation of                 *)
(* And(False, Newer(missing)) is false and never looks the reference file  *)
(* up.                                                                     *)
(***************************************************************************)
ShortCircuit ==
    /\ \A k \in 1..Len(lookups) : \A p \in Positions(ast) :
          LET e == SubExpr(ast, p)
              log == lookups[k]
              InLeft == {i \in 1..Len(log) : IsPrefix(Append(p, 1), log[i][2])}
              InRight == {i \in 1..Len(log) : IsPrefix(Append(p, 2), log[i][2])}
          IN e[1] \in {"And", "Or"} =>
                /\ InRight # {} =>
                      /\ InLeft # {}
                      /\ Denotes(e[2], EntryOf(log[1][3])) = (e[1] = "And")
                /\ \A i \in InLeft : \A j \in InRight : i < j
    /\ ast = And(TestNode(<<"False">>), TestNode(<<"Newer", "missing">>)) =>
          /\ \A k \in 1..Len(lookups) : \A i \in 1..Len(lookups[k]) :
                lookups[k][i][1] # "stat"
          /\ \A k \in 1..Len(visited) : ~visited[k].v

\* every entry of the three roots has been evaluated on And(False, Newer(missing))
ShortCircuitReached ==
    /\ pc = "done"
    /\ ast = And(TestNode(<<"False">>), TestNode(<<"Newer", "missing">>))
    /\ Len(visited) = 5

(***************************************************************************)
(* C2.  Degrade to false: a test other than User or Group by name that     *)
(* cannot be resolved on the entry (unreadable metadata, missing           *)
(* timestamp, missing reference file, malformed pattern) returns false,    *)
(* and with no User or Group by name and no Size whose product leaves the  *)
(* u64 in the expression, so that these are the only failures, every       *)
(* evaluation returns a boolean and the walk visits every yielded entry.   *)
(***************************************************************************)
DegradeToFalse ==
    /\ \A k \in 1..Len(lookups) : \A i \in 1..Len(lookups[k]) :
          LET ev == lookups[k][i] IN
          (/\ ev[1] = "test"
           /\ ~NameBased(SubExpr(ast, ev[2])[2])
           /\ Unresolvable(SubExpr(ast, ev[2])[2], EntryOf(ev[3])))
          => ReturnsFalse(lookups[k], i, ev[2])
    /\ (ast # <<>> /\ \A t \in Leafs(ast) : ~NameBased(t) /\ ~SizeOverflows(t)) => WalkComplete

\* a walk of the three roots is over in which a test could not be resolved
DegradeToFalseReached ==
    /\ pc = "done"
    /\ Len(visited) = 5
    /\ \E k \in 1..Len(lookups) : \E i \in 1..Len(lookups[k]) :
          /\ lookups[k][i][1] = "test"
          /\ SubExpr(ast, lookups[k][i][2])[2][1] \in NewerTests
          /\ EntryOf(lookups[k][i][3]).meta
          /\ Unresolvable(SubExpr(ast, lookups[k][i][2])[2], EntryOf(lookups[k][i][3]))

(***************************************************************************)
(* C3.  A User or Group test by name on an entry whose owner cannot be     *)
(* looked up, or whose id has no name, returns false, and the evaluation   *)
(* does not abort.                                                         *)
(***************************************************************************)
NameLookupDegrades ==
    \A k \in 1..Len(lookups) : \A i \in 1..Len(lookups[k]) :
        LET ev == lookups[k][i] IN
        (/\ ev[1] = "test"
         /\ NameBased(SubExpr(ast, ev[2])[2])
         /\ EntryOf(ev[3]).owner[1] # "Some")
        => ReturnsFalse(lookups[k], i, ev[2])


\* a failing evaluation of User by name on an entry whose owner has no name
NameLookupDegradesReached ==
    /\ ast = TestNode(<<"User", "abc">>)
    /\ \E k \in 1..Len(lookups) : lookups[k][1][3] = "./ref"

\* the compilation of an expression text that the grammar accepts
compile(text) == parse_to_ast(GrammarParse(text).pairs)

\* main is past the compilation of expr
Compiled == pc \in {"walk", "done", "panicked"}

\* the compilation failed: the diagnostic of parse_to_ast or the panic of
\* the grammar parse is on stderr
CompileFailed ==
    /\ stderr # <<>>
    /\ \/ stderr[1][1] = "Failed to build AST"
       \/ stderr[1][1] = "Panic" /\ stderr[1][2] = "Failed to parse command line"

\* nothing of a walk has happened
NothingWalked ==
    di = 0 /\ ei = 0 /\ visited = <<>> /\ lookups = <<>> /\ stdout = <<>>

\* text is not well-formed: it is not of the grammar (unknown keyword,
\* missing argument, open parenthesis), or a number in it is malformed
IllFormed(text) ==
    \/ ~GrammarParse(text).ok
    \/ \E i \in 1..(Len(text) - 1) :
          \/ text[i] \in {"-uid", "-gid"} /\ ~ValidU32(text[i + 1])
          \/ text[i] \in DOMAIN TimeTests /\ ~ValidCount(text[i + 1])

(***************************************************************************)
(* C4.  An expression that is not well-formed ends the compilation in a    *)
(* reported compile error, the diagnostic of parse_to_ast, and never in a  *)
(* panic, whether the grammar parse or parse_to_ast detects it.            *)
(***************************************************************************)
CompileErrorsReported ==
    (Compiled /\ IllFormed(expr)) =>
        /\ pc = "done"
        /\ ast = <<>>
        /\ Len(stderr) = 1
        /\ stderr[1][1] = "Failed to build AST"

\* the grammar parse of an unknown keyword has ended main
CompileErrorsReportedReached ==
    /\ expr = <<"-bogus">>
    /\ pc = "panicked"

(***************************************************************************)
(* C5.  If the compilation fails, the error is reported and nothing is     *)
(* walked, evaluated or printed, then or later.                            *)
(***************************************************************************)
NoWalkOnCompileFailure ==
    CompileFailed => (NothingWalked /\ pc \in {"done", "panicked"})

\* a compile error with two roots to walk
NoWalkOnCompileFailureReached ==
    /\ pc = "done"
    /\ dirs = <<"d1", "d2">>
    /\ Len(stderr) = 1
    /\ stderr[1][1] = "Failed to build AST"

(***************************************************************************)
(* C6.  -uid X and -gid X with X a word the grammar takes as the argument  *)
(* but no decimal u32 (not a number, or above u32::MAX) fail to compile    *)
(* with InvalidNumber(X): no AST, and nothing is walked or evaluated.      *)
(***************************************************************************)
InvalidIdRejected ==
    (/\ Compiled
     /\ Len(expr) = 2
     /\ expr[1] \in {"-uid", "-gid"}
     /\ IsArgument(expr[2])
     /\ ~ValidU32(expr[2]))
    => /\ pc = "done"
       /\ ast = <<>>
       /\ NothingWalked
       /\ Len(stderr) = 1
       /\ stderr[1][1] = "Failed to build AST"
       /\ stderr[1][2] = InvalidNumber(expr[2])

\* -gid with u32::MAX + 1 was rejected
InvalidIdRejectedReached ==
    /\ pc = "done"
    /\ expr = <<"-gid", "4294967296">>
    /\ Len(stderr) = 1
    /\ stderr[1][2] = InvalidNumber("4294967296")

\* the command line holds path arguments only
NoExpression(line) ==
    \A i \in 1..Len(line) : \A j \in 1..Len(CharsOf(line[i])) :
        CharsOf(line[i])[j] \notin {"-", "(", "!"}

Paths(items) == [i \in 1..Len(items) |-> items[i].entry.path]

(***************************************************************************)
(* C7.  The empty expression compiles to Test(True), and the run prints    *)
(* every entry the walker yields, in order.                                *)
(***************************************************************************)
EmptyExpressionSelectsAll ==
    NoExpression(args) =>
        /\ pc \notin {"panicked", "exit"}
        /\ stderr = <<>>
        /\ pc \in {"walk", "done"} =>
              /\ ast = TestNode(<<"True">>)
              /\ stdout = Paths(visited)
        /\ pc = "done" => stdout = Paths(Yielded(dirs))

\* two roots and no expression: the three entries of the roots are printed
EmptyExpressionSelectsAllReached ==
    /\ pc = "done"
    /\ args = <<"d1", "d2">>
    /\ stdout = <<"d1", "d1/abc", "d2">>

(***************************************************************************)
(* C8.  For tests a and b, 'a b' and 'a -and b' compile to the same AST,   *)
(* And(a, b), and so evaluate alike on every entry.                        *)
(***************************************************************************)
ImplicitAndIsAnd ==
    \A a \in ChainTests : \A b \in ChainTests :
        (Compiled /\ expr \in {a \o b, a \o <<"-and">> \o b}) =>
            /\ ast = And(compile(a).v, compile(b).v)
            /\ \A k \in 1..Len(visited) :
                  visited[k].v = (/\ Denotes(compile(a).v, visited[k].entry)
                                  /\ Denotes(compile(b).v, visited[k].entry))

\* two adjacent tests were compiled and evaluated
ImplicitAndIsAndReached ==
    /\ pc = "done"
    /\ expr = <<"-empty", "-name", "abc">>
    /\ ast = And(TestNode(<<"Empty">>), TestNode(<<"Name", "abc">>))
    /\ visited # <<>>

(***************************************************************************)
(* C9.  -and, written or implicit, binds tighter than -or whichever comes  *)
(* first: 'a -or b -and c' compiles to Or(a, And(b, c)) and                *)
(* 'a -and b -or c' to Or(And(a, b), c).                                   *)
(***************************************************************************)
AndBindsTighter ==
    \A a \in ChainTests : \A b \in ChainTests : \A c \in ChainTests :
    \A k \in {<<"-and">>, <<>>} :
        /\ (Compiled /\ expr = a \o <<"-or">> \o b \o k \o c) =>
              ast = Or(compile(a).v, And(compile(b).v, compile(c).v))
        /\ (Compiled /\ expr = a \o k \o b \o <<"-or">> \o c) =>
              ast = Or(And(compile(a).v, compile(b).v), compile(c).v)

\* the compilation of '-true -and -false -or -empty' is over
AndBindsTighterReached ==
    /\ pc = "done"
    /\ expr = <<"-true", "-and", "-false", "-or", "-empty">>

(***************************************************************************)
(* C10.  A parenthesised expression is one Term: '( a -or b ) -and c'      *)
(* compiles to And(Or(a, b), c), and '( e )' compiles as 'e' does, the     *)
(* parentheses adding no node.                                             *)
(***************************************************************************)
ParenthesesGroup ==
    /\ \A a \in ChainTests : \A b \in ChainTests : \A c \in ChainTests :
          (Compiled /\ expr = <<"(">> \o a \o <<"-or">> \o b \o <<")", "-and">> \o c) =>
              ast = And(Or(compile(a).v, compile(b).v), compile(c).v)
    /\ (/\ Compiled
        /\ Len(expr) >= 3
        /\ expr[1] = "("
        /\ expr[Len(expr)] = ")"
        /\ GrammarParse(SubSeq(expr, 2, Len(expr) - 1)).ok)
       => /\ compile(SubSeq(expr, 2, Len(expr) - 1)).st = "ok" =>
                ast = compile(SubSeq(expr, 2, Len(expr) - 1)).v
          /\ compile(SubSeq(expr, 2, Len(expr) - 1)).st = "err" =>
                /\ ast = <<>>
                /\ stderr = <<Diagnostic(compile(SubSeq(expr, 2, Len(expr) - 1)).v)>>

\* a parenthesised -or under -and was compiled
ParenthesesGroupReached ==
    /\ pc = "done"
    /\ expr = <<"(", "-true", "-or", "-false", ")", "-and", "-empty">>
    /\ ast = And(Or(TestNode(<<"True">>), TestNode(<<"False">>)), TestNode(<<"Empty">>))

(***************************************************************************)
(* C11.  -not and ! negate the one Term that follows: '-not a -and b' and  *)
(* '-not a b' compile to And(Not(a), b), and '-not a -or b' compiles to    *)
(* Or(Not(a), b); the negated term stands as the left operand without      *)
(* parentheses.                                                            *)
(***************************************************************************)
NotBindsToTerm ==
    \A n \in NotWords : \A a \in ChainTests : \A b \in ChainTests :
        /\ (Compiled /\ expr \in {<<n>> \o a \o <<"-and">> \o b, <<n>> \o a \o b}) =>
              ast = And(Not(compile(a).v), compile(b).v)
        /\ (Compiled /\ expr = <<n>> \o a \o <<"-or">> \o b) =>
              ast = Or(Not(compile(a).v), compile(b).v)

\* the compilation of '-not -true -and -false' has ended in an error
NotBindsToTermReached ==
    /\ pc = "done"
    /\ expr = <<"-not", "-true", "-and", "-false">>
    /\ stderr = <<Diagnostic(UnexpectedRule("Term", "UnaryExpr"))>>

(***************************************************************************)
(* C12.  Double negation: Not(Not(e)) evaluates on every entry to what e   *)
(* evaluates to, and aborts exactly where e aborts.                        *)
(***************************************************************************)
DoubleNegation ==
    /\ ast # <<>> =>
          \A x \in Entries :
              /\ evaluate(Not(Not(ast)), x).v = evaluate(ast, x).v
              /\ evaluate(Not(Not(ast)), x).panic = evaluate(ast, x).panic
    /\ (ast # <<>> /\ ast[1] = "Not" /\ ast[2][1] = "Not") =>
          \A k \in 1..Len(visited) :
              visited[k].v = evaluate(ast[2][2], visited[k].entry).v

\* the walk of the three roots under '-not ( -not ( -empty ) )' is over
DoubleNegationReached ==
    /\ pc = "done"
    /\ ast = Not(Not(TestNode(<<"Empty">>)))
    /\ Len(visited) = 5
    /\ stdout = <<"./ref", "d2">>

\* the trace log holds the return of v by the leaf at pos after event i
ReturnsValue(log, i, pos, v) ==
    \E j \in (i + 1)..Len(log) :
        /\ log[j][1] = "value"
        /\ log[j][2] = pos
        /\ log[j][4] = v

\* the result recorded for the entry at path, if it has been visited
VisitedAs(path, v) ==
    \A k \in 1..Len(visited) : visited[k].entry.path = path => visited[k].v = v

(***************************************************************************)
(* C13.  A Size test on an entry with readable metadata returns whether    *)
(* the byte length is equal to (no sign), greater than (+) or less than    *)
(* (-) value x multiplier, the multiplier being 512 for b or no unit, 1    *)
(* for c, 2 for w, 1024 for k, 1024^2 for M and 1024^3 for G; on the       *)
(* 1024-byte entry '.', -size 1k, +1c, -2k and 2 are true and 2048c is     *)
(* false.                                                                  *)
(***************************************************************************)
SizeIsComparison ==
    /\ \A k \in 1..Len(lookups) : \A i \in 1..Len(lookups[k]) :
          LET ev == lookups[k][i] IN
          (/\ ev[1] = "test"
           /\ SubExpr(ast, ev[2])[2][1] = "Size"
           /\ EntryOf(ev[3]).meta)
          => ReturnsValue(lookups[k], i, ev[2],
                          SizeHolds(SubExpr(ast, ev[2])[2][2], EntryOf(ev[3]).len))
    /\ (Compiled /\ Len(expr) = 2 /\ expr[1] = "-size") =>
          /\ expr[2] \in {"1k", "+1c", "-2k", "2"} => VisitedAs(".", TRUE)
          /\ expr[2] = "2048c" => VisitedAs(".", FALSE)

\* without overflow checks, the walk under '-size 18014398509481984G' has
\* selected the two entries of length 0
SizeIsComparisonReached ==
    /\ pc = "done"
    /\ ~overflow_checks
    /\ expr = <<"-size", "18014398509481984G">>
    /\ stdout = <<"./ref", "d2">>

\* the unit of each time test, in seconds
TimeUnit ==
    "Amin" :> 60 @@ "Cmin" :> 60 @@ "Mmin" :> 60 @@
    "Atime" :> 86400 @@ "Ctime" :> 86400 @@ "Mtime" :> 86400

\* the whole units between the timestamp ts and now, compared with the
\* value of the test as its sign says; false for a timestamp after now
TimeHolds(test, ts) ==
    /\ ts <= Now
    /\ CASE test[2][1] = "None" -> ToU64((Now - ts) \div TimeUnit[test[1]]) = test[2][2]
         [] test[2][1] = "Plus" -> LimbsLess(test[2][2], ToU64((Now - ts) \div TimeUnit[test[1]]))
         [] test[2][1] = "Minus" -> LimbsLess(ToU64((Now - ts) \div TimeUnit[test[1]]), test[2][2])

(***************************************************************************)
(* C14.  A time test on an entry whose timestamp of the test's kind        *)
(* (access for Amin/Atime, creation for Cmin/Ctime, modification for       *)
(* Mmin/Mtime) can be read returns false if the timestamp is after now,    *)
(* and otherwise whether floor((now - timestamp) / unit), the unit being   *)
(* 60 s for the min tests and 86400 s for the time tests, is equal to (no  *)
(* sign), greater than (+) or less than (-) the value; on '.', modified    *)
(* 30 minutes ago, -mmin 30 and -mmin -31 are true and -mmin +30 is false. *)
(***************************************************************************)
TimeIsComparison ==
    /\ \A k \in 1..Len(lookups) : \A i \in 1..Len(lookups[k]) :
          LET ev == lookups[k][i] IN
          (/\ ev[1] = "test"
           /\ SubExpr(ast, ev[2])[2][1] \in DOMAIN TimeUnit
           /\ EntryOf(ev[3]).meta
           /\ Timestamp(EntryOf(ev[3]), TimeKind(SubExpr(ast, ev[2])[2][1])) # <<>>)
          => ReturnsValue(lookups[k], i, ev[2],
                 TimeHolds(SubExpr(ast, ev[2])[2],
                           Timestamp(EntryOf(ev[3]), TimeKind(SubExpr(ast, ev[2])[2][1]))[1]))
    /\ (Compiled /\ Len(expr) = 2 /\ expr[1] = "-mmin") =>
          /\ expr[2] \in {"30", "-31"} => VisitedAs(".", TRUE)
          /\ expr[2] = "+30" => VisitedAs(".", FALSE)

\* the walk of the three roots under '-mmin +30' is over: the entry modified
\* 30 minutes ago and the entry modified in the future are not selected
TimeIsComparisonReached ==
    /\ pc = "done"
    /\ expr = <<"-mmin", "+30">>
    /\ Len(visited) = 5
    /\ stdout = <<"./ref", "d1/abc">>

(***************************************************************************)
(* C15.  Anewer, Cnewer and Mnewer of a reference file return whether the  *)
(* candidate's access, creation or modification time is strictly later     *)
(* than the reference file's time of the same kind, both being readable    *)
(* (equal times give false), and Newer returns on every entry what Mnewer  *)
(* of the same file returns.                                               *)
(***************************************************************************)
NewerIsStrictlyLater ==
    /\ \A k \in 1..Len(lookups) : \A i \in 1..Len(lookups[k]) :
          LET ev == lookups[k][i] IN
          (/\ ev[1] = "test"
           /\ SubExpr(ast, ev[2])[2][1] \in NewerTests
           /\ ~Unresolvable(SubExpr(ast, ev[2])[2], EntryOf(ev[3])))
          => ReturnsValue(lookups[k], i, ev[2],
                 Timestamp(EntryOf(ev[3]), TimeKind(SubExpr(ast, ev[2])[2][1]))[1]
                 > Timestamp(fs_metadata(SubExpr(ast, ev[2])[2][2])[1],
                             TimeKind(SubExpr(ast, ev[2])[2][1]))[1])
    /\ (ast # <<>> /\ ast[1] = "Test" /\ ast[2][1] \in {"Newer", "Mnewer"}) =>
          \A k \in 1..Len(visited) :
              /\ visited[k].v = evaluate(TestNode(<<"Newer", ast[2][2]>>), visited[k].entry).v
              /\ visited[k].v = evaluate(TestNode(<<"Mnewer", ast[2][2]>>), visited[k].entry).v

\* the walk of the three roots under '-anewer d1/abc' is over: the entry
\* d1/abc itself, equal in time, and ./ref, accessed earlier but modified
\* later, are not selected
NewerIsStrictlyLaterReached ==
    /\ pc = "done"
    /\ expr = <<"-anewer", "d1/abc">>
    /\ Len(visited) = 5
    /\ stdout = <<".", "d2">>

\* the positions, counted from 0 at the least significant end, of the bits
\* set in a u32
BitsOf(limbs) ==
    {b \in 0..31 : (limbs[IF b < 16 THEN 2 ELSE 1] \div 2 ^ (b % 16)) % 2 = 1}

\* the bits of the number that a text of octal digits writes: three for
\* each digit, the last digit lowest
OctalBits(cs) ==
    UNION {{3 * (Len(cs) - i) + j : j \in {n \in 0..2 : (DigitValue[cs[i]] \div 2 ^ n) % 2 = 1}}
           : i \in 1..Len(cs)}

\* the low nine bits of the mode of an entry
FilePerms(entry) == BitsOf(entry.mode) \cap 0..8

\* the prefix policy: equal, all of the target, any of the target
PermHolds(prefix, target, file) ==
    CASE prefix = "None" -> file = target
      [] prefix = "AllMode" -> target \subseteq file
      [] prefix = "AnyMode" -> file \cap target # {}

\* the Perm test at a position of the AST with a term of the given kind
PermAt(pos, kind) ==
    /\ SubExpr(ast, pos)[2][1] = "Perm"
    /\ SubExpr(ast, pos)[2][2][2][1] = kind

(***************************************************************************)
(* C16.  A Perm test with a numeric term on an entry with readable         *)
(* metadata returns, file being the low nine bits of the mode: whether     *)
(* file is the target (no prefix), whether every bit of the target is in   *)
(* file ('-'), whether some bit of the target is in file ('/'); the target *)
(* is the digits read in base 8; on './ref', of mode 0644, -perm 644,      *)
(* -perm -044 and -perm /200 are true.                                     *)
(***************************************************************************)
NumericPerm ==
    /\ \A k \in 1..Len(lookups) : \A i \in 1..Len(lookups[k]) :
          LET ev == lookups[k][i] IN
          (/\ ev[1] = "test"
           /\ PermAt(ev[2], "Numeric")
           /\ EntryOf(ev[3]).meta)
          => ReturnsValue(lookups[k], i, ev[2],
                 PermHolds(SubExpr(ast, ev[2])[2][2][1],
                           BitsOf(SubExpr(ast, ev[2])[2][2][2][2]),
                           FilePerms(EntryOf(ev[3]))))
    /\ (ast # <<>> /\ Len(expr) = 2 /\ expr[1] = "-perm" /\ PermAt(<<>>, "Numeric")) =>
          /\ BitsOf(ast[2][2][2][2])
                = OctalBits(IF CharsOf(expr[2])[1] \in {"-", "/"}
                            THEN Tail(CharsOf(expr[2])) ELSE CharsOf(expr[2]))
          /\ expr[2] \in {"644", "-044", "/200"} => VisitedAs("./ref", TRUE)

\* the walk of the three roots under '-perm -044' is over: the four entries
\* with readable metadata, each with r for group and other, are selected
NumericPermReached ==
    /\ pc = "done"
    /\ expr = <<"-perm", "-044">>
    /\ Len(visited) = 5
    /\ Len(stdout) = 4

\* the three bits of a principal, or all nine
PrincipalField ==
    "User" :> 6..8 @@ "Group" :> 3..5 @@ "Other" :> 0..2 @@ "All" :> 0..8

\* the bits of the privileges in the field of the principal
PrivilegeBits(principal, privileges) ==
    {b \in PrincipalField[principal] :
        \E n \in 1..Len(privileges) :
            b % 3 = CASE privileges[n] = "Read" -> 2
                      [] privileges[n] = "Write" -> 1
                      [] privileges[n] = "Execute" -> 0}

\* the statements applied from the first to the last to the bits acc
RECURSIVE Folded(_, _)
Folded(statements, acc) ==
    IF statements = <<>> THEN acc
    ELSE LET st == statements[Len(statements)]
             before == Folded(SubSeq(statements, 1, Len(statements) - 1), acc)
             mask == PrivilegeBits(st[1][1], st[2])
         IN CASE st[1][2] = "Add" -> before \cup mask
              [] st[1][2] = "Remove" -> before \ mask
              [] st[1][2] = "Set" -> (before \ PrincipalField[st[1][1]]) \cup mask

(***************************************************************************)
(* C17.  A Perm test with a symbolic term on an entry with readable        *)
(* metadata returns what the prefix policy of the numeric term gives for   *)
(* the file's low nine bits and the target obtained by applying the        *)
(* statements from left to right to those same nine bits: add joins the    *)
(* bits of the privileges in the principal's field, remove takes them      *)
(* away, set empties the principal's field (all nine bits for 'a') and     *)
(* then joins them.  Each statement works on the result of the ones        *)
(* before it: on './ref', of mode 0644, -perm u=r,u+w is true and          *)
(* -perm u+w,u=r is false.                                                 *)
(***************************************************************************)
SymbolicPermFolds ==
    /\ \A k \in 1..Len(lookups) : \A i \in 1..Len(lookups[k]) :
          LET ev == lookups[k][i] IN
          (/\ ev[1] = "test"
           /\ PermAt(ev[2], "Symbolic")
           /\ EntryOf(ev[3]).meta)
          => ReturnsValue(lookups[k], i, ev[2],
                 PermHolds(SubExpr(ast, ev[2])[2][2][1],
                           Folded(SubExpr(ast, ev[2])[2][2][2][2], FilePerms(EntryOf(ev[3]))),
                           FilePerms(EntryOf(ev[3]))))
    /\ (Compiled /\ Len(expr) = 2 /\ expr[1] = "-perm") =>
          /\ expr[2] = "u=r,u+w" => VisitedAs("./ref", TRUE)
          /\ expr[2] = "u+w,u=r" => VisitedAs("./ref", FALSE)

\* the walk of the three roots under '-perm u+w,u=r' is over and has
\* selected nothing: every readable entry has w for its user
SymbolicPermFoldsReached ==
    /\ pc = "done"
    /\ expr = <<"-perm", "u+w,u=r">>
    /\ Len(visited) = 5
    /\ stdout = <<>>

\* what a glob test matches against: the name or the path of the entry
GlobTarget(test, entry) ==
    IF test[1] \in {"Name", "Iname"} THEN entry.name ELSE entry.path

(***************************************************************************)
(* C18.  Iname and Ipath of a valid pattern ignore the case of the letters *)
(* of the pattern and of the name or path alike: the test returns whether  *)
(* the pattern in lower case matches the name or path in lower case, so    *)
(* -iname ABC is true of the entry named abc.                              *)
(***************************************************************************)
IgnoresCaseOnBothSides ==
    \A k \in 1..Len(lookups) : \A i \in 1..Len(lookups[k]) :
        LET ev == lookups[k][i] IN
        (/\ ev[1] = "test"
         /\ SubExpr(ast, ev[2])[2][1] \in {"Iname", "Ipath"}
         /\ PatternNewOk(CharsOf(SubExpr(ast, ev[2])[2][2])))
        => ReturnsValue(lookups[k], i, ev[2],
               GlobMatches(to_lowercase(CharsOf(SubExpr(ast, ev[2])[2][2])),
                           to_lowercase(CharsOf(GlobTarget(SubExpr(ast, ev[2])[2],
                                                           EntryOf(ev[3]))))))

\* the walk of the three roots under '-iname ABC' is over and has selected
\* nothing, the entry named abc included
IgnoresCaseOnBothSidesReached ==
    /\ pc = "done"
    /\ expr = <<"-iname", "ABC">>
    /\ Len(visited) = 5
    /\ stdout = <<>>

\* the pattern p, or one of the alternatives of its top level, matches the
\* text t from its first to its last character
WholeMatch(p, t, fold) ==
    \E a \in 1..Len(Alternatives(p, <<>>)) :
        MatchHere(<<"^">> \o Alternatives(p, <<>>)[a] \o <<"$">>, t, 1, fold)

(***************************************************************************)
(* C19.  Regex and Iregex of a valid pattern return true only if the       *)
(* pattern matches the whole path, from its first to its last character,   *)
(* Iregex ignoring the case of letters; so also for a pattern that is an   *)
(* alternation: -regex 'd1|abc' is not true of the path d1/abc.            *)
(***************************************************************************)
RegexMatchesWholePath ==
    \A k \in 1..Len(lookups) : \A i \in 1..Len(lookups[k]) :
        LET ev == lookups[k][i] IN
        (/\ ev[1] = "test"
         /\ SubExpr(ast, ev[2])[2][1] \in RegexTests
         /\ ReturnsValue(lookups[k], i, ev[2], TRUE))
        => WholeMatch(CharsOf(SubExpr(ast, ev[2])[2][2]), CharsOf(ev[3]),
                      SubExpr(ast, ev[2])[2][1] = "Iregex")

\* the walk of d1 under -regex 'd1|abc' is over and has selected d1/abc,
\* which begins with d1 and ends with abc
RegexMatchesWholePathReached ==
    /\ pc = "done"
    /\ dirs = <<"d1">>
    /\ expr = <<"-regex", "d1|abc">>
    /\ stdout = <<"d1", "d1/abc">>

(***************************************************************************)
(* C20.  On an entry with readable metadata, User and Group of a text that *)
(* parses as a u32 return whether the uid, for Group the gid, of the entry *)
(* is that number; of any other text, User returns whether the text is the *)
(* name of the owning user and Group whether it is the name of the owning  *)
(* group, the names being those of an entry whose owner and group both     *)
(* have one.                                                               *)
(***************************************************************************)
UserAndGroupByIdOrName ==
    \A k \in 1..Len(lookups) : \A i \in 1..Len(lookups[k]) :
        LET ev == lookups[k][i] IN
        (/\ ev[1] = "test"
         /\ SubExpr(ast, ev[2])[2][1] \in {"User", "Group"}
         /\ EntryOf(ev[3]).meta
         /\ \/ ValidU32(SubExpr(ast, ev[2])[2][2])
            \/ EntryOf(ev[3]).owner[1] = "Some" /\ EntryOf(ev[3]).group[1] = "Some")
        => ReturnsValue(lookups[k], i, ev[2],
               IF ValidU32(SubExpr(ast, ev[2])[2][2])
               THEN ParseU32(SubExpr(ast, ev[2])[2][2]).v
                      = (IF SubExpr(ast, ev[2])[2][1] = "User"
                         THEN EntryOf(ev[3]).uid ELSE EntryOf(ev[3]).gid)
               ELSE <<"Some", SubExpr(ast, ev[2])[2][2]>>
                      = (IF SubExpr(ast, ev[2])[2][1] = "User"
                         THEN EntryOf(ev[3]).owner ELSE EntryOf(ev[3]).group))

\* the walk of '.' under '-group abc' has selected '.', whose owning user
\* is abc and whose owning group is ref
UserAndGroupByIdOrNameReached ==
    /\ expr = <<"-group", "abc">>
    /\ Len(stdout) >= 1
    /\ stdout[1] = "."

WalkEnded == ast # <<>> /\ pc \in {"done", "panicked"}

(***************************************************************************)
(* C22.  A run compiles the expression once, before the first evaluation,  *)
(* and walks the roots in the order of the command line: the entries       *)
(* evaluated so far are the first of the entries the walks of the roots    *)
(* yield, in that order and each once for each time it is yielded, the     *)
(* items the walker reports as errors left out; the paths printed are      *)
(* those of the evaluated entries whose result was true, in the same       *)
(* order; and when the run has ended every yielded entry was evaluated.    *)
(***************************************************************************)
OneCompilationOneEvaluationEach ==
    /\ compiles <= 1
    /\ lookups # <<>> => compiles = 1 /\ ast # <<>>
    /\ pc # "exit" =>
          /\ IsPrefix(Paths(visited), Paths(Yielded(dirs)))
          /\ stdout = Paths(SelectSeq(visited, LAMBDA x : x.v))
    /\ WalkEnded => Len(visited) = Len(Yielded(dirs))

\* the walk of the three roots under '-user abc' has ended at its second
\* entry, whose owner has no name: three yielded entries were not evaluated
OneCompilationOneEvaluationEachReached ==
    /\ pc = "panicked"
    /\ dirs = <<".", "d1", "d2">>
    /\ expr = <<"-user", "abc">>
    /\ Len(visited) = 1
    /\ stdout = <<".">>

SizeTargetIsExact ==
    \A k \in 1..Len(lookups) : \A i \in 1..Len(lookups[k]) :
        LET ev == lookups[k][i] IN
        (/\ ev[1] = "test"
         /\ SubExpr(ast, ev[2])[2][1] = "Size"
         /\ EntryOf(ev[3]).meta)
        => /\ Pad(calculate_size_in_bytes(SubExpr(ast, ev[2])[2][2]).v,
                  Len(ExactTimes(SubExpr(ast, ev[2])[2][2][2],
                                 UnitFactors[SubExpr(ast, ev[2])[2][2][3]])))
                = ExactTimes(SubExpr(ast, ev[2])[2][2][2],
                             UnitFactors[SubExpr(ast, ev[2])[2][2][3]])
           /\ \E v \in BOOLEAN : ReturnsValue(lookups[k], i, ev[2], v)

\* with overflow checks, the run of '-size 18014398509481984G' has panicked
\* on its first entry
SizeTargetIsExactReached ==
    /\ pc = "panicked"
    /\ overflow_checks
    /\ dirs = <<".">>
    /\ expr = <<"-size", "18014398509481984G">>
    /\ visited = <<>>

\* the symbolic term of the Perm test at pos is a single add statement
SingleAddAt(pos) ==
    /\ PermAt(pos, "Symbolic")
    /\ Len(SubExpr(ast, pos)[2][2][2][2]) = 1
    /\ SubExpr(ast, pos)[2][2][2][2][1][1][2] = "Add"

(***************************************************************************)
(* C25.  A Perm test whose symbolic term is one add statement returns, on  *)
(* an entry with readable metadata and under each of the three prefixes,   *)
(* what the numeric term with the bits of that statement returns: with no  *)
(* prefix whether the file's nine bits are exactly those bits, with '-'    *)
(* whether they hold all of them, with '/' whether they hold one of them;  *)
(* so '-perm /u+x' is '-perm /100' and '-perm u+r' is '-perm 400'.         *)
(***************************************************************************)
SingleAddIsItsMask ==
    \A k \in 1..Len(lookups) : \A i \in 1..Len(lookups[k]) :
        LET ev == lookups[k][i] IN
        (/\ ev[1] = "test"
         /\ SingleAddAt(ev[2])
         /\ EntryOf(ev[3]).meta)
        => ReturnsValue(lookups[k], i, ev[2],
               PermHolds(SubExpr(ast, ev[2])[2][2][1],
                         PrivilegeBits(SubExpr(ast, ev[2])[2][2][2][2][1][1][1],
                                       SubExpr(ast, ev[2])[2][2][2][2][1][2]),
                         FilePerms(EntryOf(ev[3]))))

\* the walk of '.' under '-perm /u+x' is over and has selected ./ref, of
\* mode 0644, which nobody may execute
SingleAddIsItsMaskReached ==
    /\ pc = "done"
    /\ dirs = <<".">>
    /\ expr = <<"-perm", "/u+x">>
    /\ stdout = <<".", "./ref">>

(***************************************************************************)
(* C26.  A Perm test with a numeric target that has a bit outside the low  *)
(* nine, under no prefix or under '-', returns false on every entry,       *)
(* whatever its mode: the file's bits are cut to the low nine before the   *)
(* comparison and the target is not.  So '-perm 4755' and '-perm -4000'    *)
(* select nothing, the setuid file of mode 04755 included.                 *)
(***************************************************************************)
SpecialBitsNeverMatch ==
    \A k \in 1..Len(lookups) : \A i \in 1..Len(lookups[k]) :
        LET ev == lookups[k][i] IN
        (/\ ev[1] = "test"
         /\ PermAt(ev[2], "Numeric")
         /\ SubExpr(ast, ev[2])[2][2][1] \in {"None", "AllMode"}
         /\ BitsOf(SubExpr(ast, ev[2])[2][2][2][2]) \ (0..8) # {})
        => ReturnsFalse(lookups[k], i, ev[2])

\* the walk of the three roots under '-perm -4000' is over and has selected
\* nothing, although d1/abc has the setuid bit
SpecialBitsNeverMatchReached ==
    /\ pc = "done"
    /\ expr = <<"-perm", "-4000">>
    /\ Len(visited) = 5
    /\ BitsOf(EAbc.mode) \cap {11} # {}
    /\ stdout = <<>>

\* the words of ws before the first one that begins with '-', '(' or '!'
RECURSIVE LeadingPaths(_)
LeadingPaths(ws) ==
    IF ws = <<>> \/ CharsOf(ws[1])[1] \in {"-", "(", "!"} THEN <<>>
    ELSE <<ws[1]>> \o LeadingPaths(Tail(ws))

(***************************************************************************)
(* C27.  When the command line asks for no help, the roots are the         *)
(* arguments before the first one that begins with '-', '(' or '!', each   *)
(* as it is written ('.' alone when there are none), and the expression is *)
(* that argument and all that follow (-true when there are none): an       *)
(* argument such as my-dir, with the '-' inside, is a root as a whole.     *)
(***************************************************************************)
RootsAreTheLeadingArguments ==
    pc \notin {"start", "exit"} =>
        /\ dirs = IF LeadingPaths(args) = <<>> THEN <<".">> ELSE LeadingPaths(args)
        /\ expr = IF Len(LeadingPaths(args)) = Len(args) THEN <<"-true">>
                  ELSE SubSeq(args, Len(LeadingPaths(args)) + 1, Len(args))

\* the run of 'findr d1-true' is over: it has walked d1 under -true
RootsAreTheLeadingArgumentsReached ==
    /\ pc = "done"
    /\ args = <<"d1-true">>
    /\ dirs = <<"d1">>
    /\ expr = <<"-true">>
    /\ stdout = <<"d1", "d1/abc">>

\* the signs for which the test with the sign of its TimeSpec or SizeSpec
\* replaced returns true on the entry
SignsTrueOf(test, entry) ==
    {sign \in {"None", "Plus", "Minus"} :
        LET r == evaluate_test(<<test[1], [test[2] EXCEPT ![1] = sign]>>, entry, <<>>)
        IN ~r.panic /\ r.v}

(***************************************************************************)
(* C28.  Of the three tests that differ from a Size test only in the sign  *)
(* (none, +, -), exactly one is true of an entry with readable metadata;   *)
(* of the three that differ from a time test only in the sign, exactly one *)
(* is true of an entry whose timestamp of the test's kind is readable and  *)
(* not after now, and none is true when it is after now.                   *)
(***************************************************************************)
SignTrichotomy ==
    \A k \in 1..Len(lookups) : \A i \in 1..Len(lookups[k]) :
        LET ev == lookups[k][i] IN
        ev[1] = "test" =>
            /\ (SubExpr(ast, ev[2])[2][1] = "Size" /\ EntryOf(ev[3]).meta) =>
                  Cardinality(SignsTrueOf(SubExpr(ast, ev[2])[2], EntryOf(ev[3]))) = 1
            /\ (/\ SubExpr(ast, ev[2])[2][1] \in DOMAIN TimeUnit
                /\ EntryOf(ev[3]).meta
                /\ Timestamp(EntryOf(ev[3]), TimeKind(SubExpr(ast, ev[2])[2][1])) # <<>>) =>
                  Cardinality(SignsTrueOf(SubExpr(ast, ev[2])[2], EntryOf(ev[3])))
                    = IF Timestamp(EntryOf(ev[3]),
                                   TimeKind(SubExpr(ast, ev[2])[2][1]))[1] <= Now
                      THEN 1 ELSE 0

\* with overflow checks, the run of 'findr d2 -size 18014398509481984G' has
\* panicked on d2: the test is true of it under none of the three signs
SignTrichotomyReached ==
    /\ pc = "panicked"
    /\ overflow_checks
    /\ dirs = <<"d2">>
    /\ expr = <<"-size", "18014398509481984G">>
    /\ SignsTrueOf(ast[2], ED2) = {}

=============================================================================
